---- MODULE Spec2Model ----
(***************************************************************************)
(* Flappy Bird with piano input: the MIDI-to-action mapper                 *)
(* (piano-input-mapper.js) and the frame loop, practice-mode collision     *)
(* physics and scroll gate of game.js.                                     *)
(*                                                                         *)
(* Lengths and velocities are fixed-point integers in 1/1000 pixel; the     *)
(* game speed multiplier is in tenths; wall clock time is in milliseconds. *)
(***************************************************************************)
EXTENDS Integers, Sequences, FiniteSets, TLC

VARIABLES
    \* ---- PianoInputMapper (piano-input-mapper.js) ----
    config,        \* this.config
    state,         \* this.state = {up, down}
    activeNotes,   \* this.activeNotes (a Set of MIDI pitches)
    heldByLog,     \* history: pitches whose latest note-on/off message was a note-on
    connectedDevices, \* this.connectedDevices (the ids of the ports)
    isConnected,   \* this.isConnected
    initLog,       \* history: how the latest call of init() ended
    configLog,     \* history: the updates applied since the mapper was built
    \* ---- game.js ----
    usePiano,
    gameSpeed,          \* in tenths
    gameRunning,
    gamePaused,
    animationId,        \* the handle of the latest requestAnimationFrame
    practiceMode,
    pipeScrollEnabled,
    lastCollisionY,
    collisionPipe,      \* the pipe in contact (its id, top, bottom) or NoPipe
    collisionTime,
    bird,               \* [x, y, velocity, velocityX]
    keyboardState,      \* [up, down]
    pipes,              \* sequence of [id, x, top, bottom]; id is the spawn frame
    frameCount,
    hidden,             \* which screens carry the class "hidden"
    sessionActive,      \* trackingState.sessionActive
    trackingConfigured, \* isTrackingConfigured()
    trackingState,      \* the other fields of trackingState
    tracker,            \* trackingState.tracker, the PianoTracker
    \* ---- the network ----
    requests,           \* the requests in flight
    sent,               \* history: the requests issued, in order
    \* ---- the browser ----
    pending,            \* handles of the animation-frame callbacks scheduled
    startAwait,         \* the start handler waits at "await startTrackingSession()"
    now,                \* Date.now()
    \* ---- history ----
    frameLog,           \* what the latest gameLoop() call did
    framesRun           \* frames executed so far

mapperVars == <<config, state, activeNotes, heldByLog,
                connectedDevices, isConnected, initLog, configLog>>

gameVars == <<usePiano, gameSpeed, gameRunning, gamePaused, animationId,
              practiceMode, pipeScrollEnabled, lastCollisionY, collisionPipe,
              collisionTime, bird, keyboardState, pipes, frameCount, hidden,
              sessionActive, trackingConfigured, trackingState, tracker,
              requests, sent, pending, startAwait, now, frameLog, framesRun>>

vars == <<mapperVars, gameVars>>

(***************************************************************************)
(* Bounds of the mapper model.                                             *)
(***************************************************************************)
\* at most this many keys are held down at the same time
MaxHeld == 4

\* a MIDIAccess lists at most this many input ports
MaxPorts == 2

\* at most this many updates are kept in configLog
MaxUpdates == 3

\* the MIDI pitches the environment plays: the C major triad in octave 4,
\* octave doublings of its members, neighbours outside the triad, and the
\* two ends of the MIDI range
Pitches == {0, 48, 55, 60, 61, 64, 65, 67, 69, 72, 76, 127}

\* status bytes the devices send: note-off, note-on, note-on on channel 2,
\* control change
StatusBytes == {128, 144, 145, 176}

Velocities == {0, 100}

(***************************************************************************)
(* Music theory lookup tables.                                             *)
(***************************************************************************)
noteToMidi ==
    ( "C" :> 0 @@ "C#" :> 1 @@ "Db" :> 1 @@
      "D" :> 2 @@ "D#" :> 3 @@ "Eb" :> 3 @@
      "E" :> 4 @@
      "F" :> 5 @@ "F#" :> 6 @@ "Gb" :> 6 @@
      "G" :> 7 @@ "G#" :> 8 @@ "Ab" :> 8 @@
      "A" :> 9 @@ "A#" :> 10 @@ "Bb" :> 10 @@
      "B" :> 11 )

chordPatterns ==
    ( "Major" :> <<0, 4, 7>> @@
      "Minor" :> <<0, 3, 7>> @@
      "Diminished" :> <<0, 3, 6>> @@
      "Augmented" :> <<0, 4, 8>> )

\* new PianoInputMapper({mode: 'Note', upNote: 'C', downNote: 'G'})
InitialConfig ==
    [ mode |-> "Note",
      upNote |-> "C", downNote |-> "G",
      upChord |-> "C", upChordType |-> "Major",
      downChord |-> "G", downChordType |-> "Major" ]

\* the partial configurations handed to updateConfig: what the configuration
\* screen builds (mode plus that mode's fields), and names the tables lack
ConfigUpdates ==
    { [mode |-> "Note", upNote |-> "C", downNote |-> "G"],
      [mode |-> "Note", upNote |-> "F#", downNote |-> "H"],
      [mode |-> "Chord", upChord |-> "C", upChordType |-> "Major",
                         downChord |-> "G", downChordType |-> "Major"],
      [mode |-> "Chord", upChord |-> "A", upChordType |-> "Minor",
                         downChord |-> "B", downChordType |-> "Diminished"],
      [mode |-> "Chord", upChord |-> "Ab", upChordType |-> "Augmented",
                         downChord |-> "H", downChordType |-> "Sus4"],
      [upChordType |-> "Sus4"],
      [upChordType |-> "Major"] }

(***************************************************************************)
(* PianoInputMapper                                                        *)
(***************************************************************************)
\* a plausible slip: compare the MIDI pitch itself, not its pitch class
isNotePressed_NoOctave(notes, noteName) ==
    IF noteName \notin DOMAIN noteToMidi THEN FALSE
    ELSE \E midiNote \in notes : midiNote = noteToMidi[noteName]

\* isNotePressed(noteName), on the held set `notes`
isNotePressed(notes, noteName) ==
    IF noteName \notin DOMAIN noteToMidi THEN FALSE
    ELSE LET noteValue == noteToMidi[noteName]
         IN  \E midiNote \in notes : midiNote % 12 = noteValue

\* a plausible slip: the strict "no extra notes" test is left out
isChordPressed_NoStrict(notes, rootNote, chordType) ==
    IF rootNote \notin DOMAIN noteToMidi THEN FALSE
    ELSE IF chordType \notin DOMAIN chordPatterns THEN FALSE
    ELSE LET pattern == chordPatterns[chordType]
             expectedNotes == [i \in DOMAIN pattern |->
                                  (noteToMidi[rootNote] + pattern[i]) % 12]
         IN  \A i \in DOMAIN expectedNotes :
                 \E n \in notes : n % 12 = expectedNotes[i]

\* isChordPressed(rootNote, chordType), on the held set `notes`.
\* activeNormalized is Array.from(activeNotes).map(n => n % 12): one entry
\* per held pitch, so two pitches of one pitch class give two entries.
isChordPressed(notes, rootNote, chordType) ==
    IF rootNote \notin DOMAIN noteToMidi THEN FALSE
    ELSE IF chordType \notin DOMAIN chordPatterns THEN FALSE
    ELSE LET rootValue == noteToMidi[rootNote]
             pattern == chordPatterns[chordType]
             expectedNotes == [i \in DOMAIN pattern |->
                                  (rootValue + pattern[i]) % 12]
             activeNormalized == [n \in notes |-> n % 12]
             allPresent == \A i \in DOMAIN expectedNotes :
                               \E n \in DOMAIN activeNormalized :
                                   activeNormalized[n] = expectedNotes[i]
             noExtras == Cardinality(DOMAIN activeNormalized) = Len(expectedNotes)
         IN  allPresent /\ noExtras

\* updateState(): the value written to this.state
updateState(notes, cfg) ==
    IF cfg.mode = "Note"
    THEN [ up |-> isNotePressed(notes, cfg.upNote),
           down |-> isNotePressed(notes, cfg.downNote) ]
    ELSE [ up |-> isChordPressed(notes, cfg.upChord, cfg.upChordType),
           down |-> isChordPressed(notes, cfg.downChord, cfg.downChordType) ]

\* the held set after one message [status, note, velocity]
noteSetAfter(notes, status, note, velocity) ==
    IF status = 144 /\ velocity > 0 THEN notes \cup {note}
    ELSE IF status = 128 \/ (status = 144 /\ velocity = 0) THEN notes \ {note}
    ELSE notes

\* history: the latest note-on/note-off message of each pitch, by the
\* interface's reading of the bytes (0x90 = 144, 0x80 = 128)
logAfter(log, status, note, velocity) ==
    LET isNoteOn == status = 144 /\ velocity > 0
        isNoteOff == status = 128 \/ (status = 144 /\ velocity = 0)
    IN  IF isNoteOn THEN log \cup {note}
        ELSE IF isNoteOff THEN log \ {note}
        ELSE log

\* a plausible slip: a note-on with velocity 0 is not taken as a note-off
handleMIDI_NoRunningOff(status, note, velocity) ==
    /\ activeNotes' = (IF status = 144 /\ velocity > 0 THEN activeNotes \cup {note}
                       ELSE IF status = 128 THEN activeNotes \ {note}
                       ELSE activeNotes)
    /\ state' = updateState(activeNotes', config)
    /\ heldByLog' = logAfter(heldByLog, status, note, velocity)
    /\ UNCHANGED <<config, connectedDevices, isConnected, initLog, configLog>>

\* handleMIDI(message)
handleMIDI(status, note, velocity) ==
    /\ activeNotes' = noteSetAfter(activeNotes, status, note, velocity)
    /\ state' = updateState(activeNotes', config)
    /\ heldByLog' = logAfter(heldByLog, status, note, velocity)
    /\ UNCHANGED <<config, connectedDevices, isConnected, initLog, configLog>>
\* a plausible slip: the spread is the other way round, { ...newConfig,
\* ...this.config }
mergeConfig_OldWins(cfg, newConfig) ==
    [k \in DOMAIN cfg \cup DOMAIN newConfig |->
        IF k \in DOMAIN cfg THEN cfg[k] ELSE newConfig[k]]

\* { ...this.config, ...newConfig }
mergeConfig(cfg, newConfig) ==
    [k \in DOMAIN cfg \cup DOMAIN newConfig |->
        IF k \in DOMAIN newConfig THEN newConfig[k] ELSE cfg[k]]

\* a plausible slip: the configuration is replaced without the recheck
updateConfig_NoRecheck(newConfig) ==
    /\ config' = mergeConfig(config, newConfig)
    /\ UNCHANGED <<state, activeNotes, heldByLog,
                   connectedDevices, isConnected, initLog>>

\* updateConfig(newConfig)
updateConfig(newConfig) ==
    /\ config' = mergeConfig(config, newConfig)
    /\ state' = updateState(activeNotes, config')
    /\ UNCHANGED <<activeNotes, heldByLog,
                   connectedDevices, isConnected, initLog>>

\* getConfigDescription(): the pieces of the template string, in order
getConfigDescription(cfg) ==
    IF cfg.mode = "Note"
    THEN <<"Note Mode: Up=", cfg.upNote, ", Down=", cfg.downNote>>
    ELSE <<"Chord Mode: Up=", cfg.upChord, " ", cfg.upChordType,
           ", Down=", cfg.downChord, " ", cfg.downChordType>>

\* navigator.requestMIDIAccess() is rejected
Rejected == [granted |-> FALSE, inputs |-> <<>>]

\* what navigator.requestMIDIAccess() resolves to: a rejection, or a
\* MIDIAccess whose inputs are ports 1..n, each connected or not
MidiAccesses ==
    {Rejected} \cup
    { [granted |-> TRUE, inputs |-> ports] :
        ports \in UNION { [1..n -> {"connected", "disconnected"}] : n \in 0..MaxPorts } }

\* init() was not called yet
NoInit == [called |-> FALSE, access |-> Rejected, returned |-> FALSE, thrown |-> FALSE]

\* a plausible slip: init() has no catch, so the rejection reaches the caller
PianoInputMapper_init_NoCatch(access) ==
    IF ~access.granted
    THEN /\ initLog' = [called |-> TRUE, access |-> access,
                        returned |-> FALSE, thrown |-> TRUE]
         /\ UNCHANGED <<connectedDevices, isConnected>>
    ELSE LET devices == { i \in DOMAIN access.inputs : access.inputs[i] = "connected" }
         IN  /\ connectedDevices' = devices
             /\ isConnected' = (devices # {})
             /\ initLog' = [called |-> TRUE, access |-> access,
                            returned |-> devices # {}, thrown |-> FALSE]

\* init(), for one outcome of requestMIDIAccess; devices is what
\* updateDeviceList() collects
PianoInputMapper_init(access) ==
    IF ~access.granted
    THEN /\ isConnected' = FALSE
         /\ initLog' = [called |-> TRUE, access |-> access,
                        returned |-> FALSE, thrown |-> FALSE]
         /\ UNCHANGED connectedDevices
    ELSE LET devices == { i \in DOMAIN access.inputs : access.inputs[i] = "connected" }
         IN  /\ connectedDevices' = devices
             /\ isConnected' = (devices # {})
             /\ initLog' = [called |-> TRUE, access |-> access,
                            returned |-> devices # {}, thrown |-> FALSE]

\* a plausible slip: the notes held are forgotten when the ports change
handleConnectionChange_ClearsNotes(inputs) ==
    /\ connectedDevices' = { i \in DOMAIN inputs : inputs[i] = "connected" }
    /\ isConnected' = (connectedDevices' # {})
    /\ activeNotes' = {}
    /\ state' = updateState(activeNotes', config)
    /\ UNCHANGED <<config, heldByLog, initLog, configLog>>

\* handleConnectionChange(event): updateDeviceList() over the ports as they
\* are now; the onConnectionChange callback of game.js only redraws the
\* connection status
handleConnectionChange(inputs) ==
    /\ connectedDevices' = { i \in DOMAIN inputs : inputs[i] = "connected" }
    /\ isConnected' = (connectedDevices' # {})
    /\ UNCHANGED <<config, state, activeNotes, heldByLog, initLog, configLog>>

(***************************************************************************)
(* game.js: constants.  Lengths and velocities are in 1/1000 pixel, the    *)
(* speed multiplier in tenths, times in milliseconds.                      *)
(***************************************************************************)
CanvasWidth == 400000
CanvasHeight == 600000
birdRestX == 80000
birdRadius == 15000
gravity == 50
upThrust == -350
downThrust == 350
maxVelocity == 4000
pipeWidth == 60000
pipeGap == 150000
pipeSpeed == 2000
pipeFrequency == 90
autoResumeDelay == 1000
\* the vertical clearance of checkScrollResume (40 px)
clearanceY == 40000
\* the horizontal impulse of a side collision (2 px per frame)
sideImpulse == 2000
\* the horizontal velocity below which the bird returns to its rest x (0.1 px)
restEpsilon == 100
\* minHeight of a spawned pipe (50 px) and the margin of maxHeight (100 px)
minHeight == 50000
maxHeightMargin == 100000
\* the ground line is canvas.height - 50
groundMargin == 50000

groundY == CanvasHeight - groundMargin

\* collisionPipe = null
NoPipe == [id |-> 0, top |-> 0, bottom |-> 0]

\* animationId = null
NoId == 0

(***************************************************************************)
(* Bounds of the game model.                                               *)
(***************************************************************************)
\* frames executed in one behaviour
MaxFrames == 8
\* arrow keys change only before this many frames have run
InputFrames == 1
\* the clock advances in steps of TickMs while it is below MaxNow
TickMs == 500
MaxNow == 1500
\* pause/resume is pressed only while fewer than this many callbacks are pending
MaxLoops == 2
\* where every frame comes with a step of the clock, frames run while the
\* clock is below MaxLiveNow
MaxLiveNow == 3000

\* at most this many events are tracked, and at most this many actions
\* recorded in one tracking session
MaxEvents == 2

\* at most this many requests fail
MaxErrors == 1

\* the frames executed in the model of a tracked run
MaxTrackedFrames == 1

\* in the runs that fill the tracker's queue: at most this many actions are
\* recorded, and the batch timeout fires only while at most this many requests
\* were issued
MaxQueued == 17

MaxBatches == 2

\* values of the speed slider (0.5x, 1.0x, 2.0x), in tenths
GameSpeeds == {5, 10, 20}
\* a plausible slip: maxHeight leaves no room for the gap (canvas.height - 100)
TopHeights_NoGap == {minHeight, 200000, CanvasHeight - maxHeightMargin - 1000}

\* values Math.random() * (maxHeight - minHeight) + minHeight takes
TopHeights == {minHeight, 200000, CanvasHeight - pipeGap - maxHeightMargin - 1000}

(***************************************************************************)
(* Fixed-point arithmetic: a * n / d, rounded toward zero.                 *)
(***************************************************************************)
MulDiv(a, n, d) ==
    LET p == a * n
    IN  IF p >= 0 THEN p \div d ELSE -((-p) \div d)

Abs(a) == IF a < 0 THEN -a ELSE a

Max(a, b) == IF a >= b THEN a ELSE b

Min(a, b) == IF a <= b THEN a ELSE b

\* x * gameSpeed
TimesSpeed(x, gs) == MulDiv(x, gs, 10)

(***************************************************************************)
(* The frame.  A world w is the record of everything one gameLoop() call   *)
(* reads and writes; log is the history of what the call did.              *)
(***************************************************************************)
EmptyLog ==
    [ ran |-> FALSE,          \* the frame got past gameLoop's guard
      capped |-> FALSE,       \* updateBird's cap changed the velocity
      gated |-> FALSE,        \* checkScrollResume found the gate off
      probeY |-> 0,           \* bird.y as checkScrollResume read it
      probeElapsed |-> 0,     \* timeSinceCollision as it computed it
      probePipe |-> NoPipe,   \* collisionPipe as it read it
      released |-> FALSE,     \* checkScrollResume opened the gate
      hits |-> {},            \* collision branches taken
      hitWhileGated |-> FALSE,\* a pipe branch ran with the gate already off
      recorded |-> FALSE,     \* a contact was recorded
      gameOvers |-> 0,        \* calls of gameOver()
      touched |-> {} ]        \* what checkCollisions changed

\* a plausible slip: the piano's flag counts whether or not the piano is enabled
isUpPressed_AnyPiano(w) == w.keyboardState.up \/ w.mapperUp

isUpPressed(w) == w.keyboardState.up \/ (w.usePiano /\ w.mapperUp)

isDownPressed(w) == w.keyboardState.down \/ (w.usePiano /\ w.mapperDown)

\* what checkScrollResume read, for the history
Probed(w) ==
    [w EXCEPT !.log.gated = TRUE, !.log.probeY = w.bird.y,
              !.log.probeElapsed = w.now - w.collisionTime,
              !.log.probePipe = w.collisionPipe]

\* the gate opens and the contact is cleared
Released(w) ==
    [w EXCEPT !.pipeScrollEnabled = TRUE, !.collisionPipe = NoPipe,
              !.log.released = TRUE]

\* the two position tests of checkScrollResume
inGap(w) ==
    w.bird.y > w.collisionPipe.top /\ w.bird.y < w.collisionPipe.bottom

clearedVertically(w) == Abs(w.bird.y - w.lastCollisionY) > clearanceY

\* a plausible slip: the delay is compared with >= where the code has >
checkScrollResume_AtDelay(w) ==
    IF w.practiceMode /\ ~w.pipeScrollEnabled
    THEN IF w.now - w.collisionTime >= autoResumeDelay
         THEN Released(Probed(w))
         ELSE IF w.collisionPipe # NoPipe /\ (inGap(w) \/ clearedVertically(w))
         THEN Released(Probed(w))
         ELSE Probed(w)
    ELSE w

\* a plausible slip: the timeout opens the gate but keeps the contact
checkScrollResume_KeepsContact(w) ==
    IF w.practiceMode /\ ~w.pipeScrollEnabled
    THEN IF w.now - w.collisionTime > autoResumeDelay
         THEN [Probed(w) EXCEPT !.pipeScrollEnabled = TRUE,
                                !.log.released = TRUE]
         ELSE IF w.collisionPipe # NoPipe /\ (inGap(w) \/ clearedVertically(w))
         THEN Released(Probed(w))
         ELSE Probed(w)
    ELSE w

\* a plausible slip: the timeout branch is missing
checkScrollResume_NoTimeout(w) ==
    IF w.practiceMode /\ ~w.pipeScrollEnabled
    THEN IF w.collisionPipe # NoPipe /\ (inGap(w) \/ clearedVertically(w))
         THEN Released(Probed(w))
         ELSE Probed(w)
    ELSE w

\* checkScrollResume()
checkScrollResume(w) ==
    IF w.practiceMode /\ ~w.pipeScrollEnabled
    THEN LET currentTime == w.now
             timeSinceCollision == currentTime - w.collisionTime
             w0 == Probed(w)
         IN  IF timeSinceCollision > autoResumeDelay
             THEN Released(w0)
             ELSE IF w.collisionPipe # NoPipe
             THEN IF inGap(w) \/ clearedVertically(w)
                  THEN Released(w0)
                  ELSE w0
             ELSE w0
    ELSE w

\* a plausible slip: the bird stops where it is instead of returning to its
\* rest position
updateBird_NoSnap(w) ==
    LET b == w.bird
        up == isUpPressed(w)
        down == isDownPressed(w)
        v1 == b.velocity + (IF up THEN upThrust ELSE 0)
        v2 == v1 + (IF down THEN downThrust ELSE 0)
        v3 == IF ~up /\ ~down THEN v2 + TimesSpeed(gravity, w.gameSpeed) ELSE v2
        v4 == Max(-maxVelocity, Min(maxVelocity, v3))
        y1 == b.y + TimesSpeed(v4, w.gameSpeed)
        moveX == w.practiceMode /\ b.velocityX # 0
        x1 == IF moveX THEN b.x + TimesSpeed(b.velocityX, w.gameSpeed) ELSE b.x
        vx1 == IF moveX THEN MulDiv(b.velocityX, 95, 100) ELSE b.velocityX
        stop == moveX /\ Abs(vx1) < restEpsilon
        b1 == [ x |-> x1,
                y |-> y1,
                velocity |-> MulDiv(v4, 98, 100),
                velocityX |-> IF stop THEN 0 ELSE vx1 ]
    IN  checkScrollResume([w EXCEPT !.bird = b1, !.log.capped = (v4 # v3)])

\* a plausible slip: the drag is applied before the position is advanced
updateBird_DragFirst(w) ==
    LET b == w.bird
        up == isUpPressed(w)
        down == isDownPressed(w)
        v1 == b.velocity + (IF up THEN upThrust ELSE 0)
        v2 == v1 + (IF down THEN downThrust ELSE 0)
        v3 == IF ~up /\ ~down THEN v2 + TimesSpeed(gravity, w.gameSpeed) ELSE v2
        v4 == Max(-maxVelocity, Min(maxVelocity, v3))
        v5 == MulDiv(v4, 98, 100)
        y1 == b.y + TimesSpeed(v5, w.gameSpeed)
        moveX == w.practiceMode /\ b.velocityX # 0
        x1 == IF moveX THEN b.x + TimesSpeed(b.velocityX, w.gameSpeed) ELSE b.x
        vx1 == IF moveX THEN MulDiv(b.velocityX, 95, 100) ELSE b.velocityX
        stop == moveX /\ Abs(vx1) < restEpsilon
        b1 == [ x |-> IF stop THEN birdRestX ELSE x1,
                y |-> y1,
                velocity |-> v5,
                velocityX |-> IF stop THEN 0 ELSE vx1 ]
    IN  checkScrollResume([w EXCEPT !.bird = b1, !.log.capped = (v4 # v3)])

\* a plausible slip: the velocity is not capped
updateBird_NoCap(w) ==
    LET b == w.bird
        up == isUpPressed(w)
        down == isDownPressed(w)
        v1 == b.velocity + (IF up THEN upThrust ELSE 0)
        v2 == v1 + (IF down THEN downThrust ELSE 0)
        v3 == IF ~up /\ ~down THEN v2 + TimesSpeed(gravity, w.gameSpeed) ELSE v2
        y1 == b.y + TimesSpeed(v3, w.gameSpeed)
        moveX == w.practiceMode /\ b.velocityX # 0
        x1 == IF moveX THEN b.x + TimesSpeed(b.velocityX, w.gameSpeed) ELSE b.x
        vx1 == IF moveX THEN MulDiv(b.velocityX, 95, 100) ELSE b.velocityX
        stop == moveX /\ Abs(vx1) < restEpsilon
        b1 == [ x |-> IF stop THEN birdRestX ELSE x1,
                y |-> y1,
                velocity |-> MulDiv(v3, 98, 100),
                velocityX |-> IF stop THEN 0 ELSE vx1 ]
    IN  checkScrollResume([w EXCEPT !.bird = b1])

\* updateBird()
updateBird(w) ==
    LET b == w.bird
        up == isUpPressed(w)
        down == isDownPressed(w)
        v1 == b.velocity + (IF up THEN upThrust ELSE 0)
        v2 == v1 + (IF down THEN downThrust ELSE 0)
        v3 == IF ~up /\ ~down THEN v2 + TimesSpeed(gravity, w.gameSpeed) ELSE v2
        v4 == Max(-maxVelocity, Min(maxVelocity, v3))
        y1 == b.y + TimesSpeed(v4, w.gameSpeed)
        moveX == w.practiceMode /\ b.velocityX # 0
        x1 == IF moveX THEN b.x + TimesSpeed(b.velocityX, w.gameSpeed) ELSE b.x
        vx1 == IF moveX THEN MulDiv(b.velocityX, 95, 100) ELSE b.velocityX
        stop == moveX /\ Abs(vx1) < restEpsilon
        b1 == [ x |-> IF stop THEN birdRestX ELSE x1,
                y |-> y1,
                velocity |-> MulDiv(v4, 98, 100),
                velocityX |-> IF stop THEN 0 ELSE vx1 ]
    IN  checkScrollResume([w EXCEPT !.bird = b1, !.log.capped = (v4 # v3)])
\* a plausible slip: the pipes scroll whether or not the gate is up
updatePipes_IgnoresGate(w, topHeight) ==
    LET fc == w.frameCount + 1
        spawn == fc % ((pipeFrequency * 10) \div w.gameSpeed) = 0
        pushed == IF spawn
                  THEN Append(w.pipes, [id |-> fc, x |-> CanvasWidth,
                                        top |-> topHeight,
                                        bottom |-> topHeight + pipeGap])
                  ELSE w.pipes
        moved == [i \in DOMAIN pushed |->
                     [pushed[i] EXCEPT !.x = @ - TimesSpeed(pipeSpeed, w.gameSpeed)]]
        kept == SelectSeq(moved, LAMBDA pipe : pipe.x + pipeWidth > 0)
    IN  [w EXCEPT !.frameCount = fc, !.pipes = kept]

\* updatePipes(); topHeight is the random height of a pipe spawned now
updatePipes(w, topHeight) ==
    IF ~w.practiceMode \/ w.pipeScrollEnabled
    THEN LET fc == w.frameCount + 1
             spawn == fc % ((pipeFrequency * 10) \div w.gameSpeed) = 0
             pushed == IF spawn
                       THEN Append(w.pipes, [id |-> fc, x |-> CanvasWidth,
                                             top |-> topHeight,
                                             bottom |-> topHeight + pipeGap])
                       ELSE w.pipes
             moved == [i \in DOMAIN pushed |->
                          [pushed[i] EXCEPT !.x = @ - TimesSpeed(pipeSpeed, w.gameSpeed)]]
             kept == SelectSeq(moved, LAMBDA pipe : pipe.x + pipeWidth > 0)
         IN  [w EXCEPT !.frameCount = fc, !.pipes = kept]
    ELSE w

\* whether updatePipes spawns a pipe in the frame that starts in world w
\* (the gate as updateBird leaves it)
spawnsPipe(w) ==
    LET w1 == updateBird(w)
    IN  /\ ~w1.practiceMode \/ w1.pipeScrollEnabled
        /\ (w1.frameCount + 1) % ((pipeFrequency * 10) \div w1.gameSpeed) = 0

(***************************************************************************)
(* Performance tracking: trackingState of game.js and the PianoTracker of  *)
(* piano-tracker.js, built with batchMode: true.  A network request in     *)
(* flight is a member of w.requests; w.sent lists the requests in the      *)
(* order they were issued.  The server's session id is the number of the   *)
(* start request it answers.                                               *)
(***************************************************************************)
\* null, for an id or a time
Null == -1

\* TRACKING_SETTINGS.batchSize
batchSize == 15

\* !id
Falsy(id) == id = Null \/ id = 0

\* the arguments of tracker.endSession
EndArgs(finalScore, successCount, errorCount) ==
    [finalScore |-> finalScore, successCount |-> successCount,
     errorCount |-> errorCount]

\* fetch(...): the request is issued.  kind is "start", "batch" or "end";
\* awaited holds for the batch request tracker.endSession() waits for, which
\* then carries the arguments of that call
fetch(w, kind, sessionId, events, awaited, args) ==
    LET req == [n |-> Len(w.sent) + 1, kind |-> kind, sessionId |-> sessionId,
                events |-> events, awaited |-> awaited, args |-> args]
    IN  [w EXCEPT !.requests = @ \cup {req}, !.sent = Append(@, req)]

\* tracker.flushQueue(), up to its await
flushQueue(w, awaited, args) ==
    IF w.tracker.eventQueue = <<>> THEN w
    ELSE fetch([w EXCEPT !.tracker.batchTimer = FALSE,
                         !.tracker.eventQueue = <<>>],
               "batch", Null, w.tracker.eventQueue, awaited, args)

\* a plausible slip: the queue is flushed when it exceeds batchSize
queueEvent_FlushAbove(w, event) ==
    LET w1 == [w EXCEPT !.tracker.eventQueue = Append(@, event)]
    IN  IF Len(w1.tracker.eventQueue) > batchSize
        THEN flushQueue(w1, FALSE, EndArgs(0, 0, 0))
        ELSE IF ~w1.tracker.batchTimer
        THEN [w1 EXCEPT !.tracker.batchTimer = TRUE]
        ELSE w1

\* tracker.queueEvent(event); batchTimer holds while the timeout is set
queueEvent(w, event) ==
    LET w1 == [w EXCEPT !.tracker.eventQueue = Append(@, event)]
    IN  IF Len(w1.tracker.eventQueue) >= batchSize
        THEN flushQueue(w1, FALSE, EndArgs(0, 0, 0))
        ELSE IF ~w1.tracker.batchTimer
        THEN [w1 EXCEPT !.tracker.batchTimer = TRUE]
        ELSE w1

\* tracker.trackEvent, which trackNote and trackChord hand over to
trackEvent(w, expectedId, playedId, responseTimeMs, position, hand) ==
    IF Falsy(w.tracker.sessionId) THEN w
    ELSE LET event ==
                 [ sessionId |-> w.tracker.sessionId,
                   expectedChordId |-> expectedId,
                   playedChordId |-> playedId,
                   isCorrect |-> /\ expectedId = playedId
                                 /\ expectedId # Null /\ playedId # Null,
                   responseTimeMs |-> responseTimeMs,
                   positionInProgression |-> position,
                   handUsed |-> hand,
                   transitionFromChordId |-> w.tracker.lastChordId ]
         IN  [queueEvent(w, event) EXCEPT !.tracker.lastChordId = playedId]

\* tracker.endSession, up to its first await: the flush of a queue that is
\* not empty, or else the session-end request
endSession(w, finalScore, successCount, errorCount) ==
    IF Falsy(w.tracker.sessionId) THEN w
    ELSE IF w.tracker.eventQueue # <<>>
    THEN flushQueue(w, TRUE, EndArgs(finalScore, successCount, errorCount))
    ELSE fetch(w, "end", w.tracker.sessionId, <<>>, FALSE,
               EndArgs(finalScore, successCount, errorCount))
\* a plausible slip: the score is not floored at 0
endTrackingSession_NoFloor(w) ==
    IF ~w.sessionActive THEN w
    ELSE endSession([w EXCEPT !.sessionActive = FALSE],
                    w.tracking.successCount * 10 - w.tracking.errorCount * 2,
                    w.tracking.successCount, w.tracking.errorCount)

\* endTrackingSession(), up to its await
endTrackingSession(w) ==
    IF ~w.sessionActive THEN w
    ELSE LET score == Max(0, w.tracking.successCount * 10
                             - w.tracking.errorCount * 2)
         IN  endSession([w EXCEPT !.sessionActive = FALSE], score,
                        w.tracking.successCount, w.tracking.errorCount)
\* a plausible slip: flushQueue has no catch, so a failed batch ends the
\* endSession that waits for it
batchSettled_Rethrows(w, req, ok) ==
    LET w1 == [w EXCEPT !.requests = @ \ {req},
                        !.tracker.stats =
                            IF ok THEN [@ EXCEPT !.batchesSent = @ + 1,
                                                 !.eventsSent = @ + Len(req.events)]
                            ELSE [@ EXCEPT !.errors = @ + 1]]
    IN  IF req.awaited /\ ok
        THEN fetch(w1, "end", w1.tracker.sessionId, <<>>, FALSE, req.args)
        ELSE w1

\* a batch request settles: flushQueue goes on after its await, and so does
\* the endSession that waited for it, with the session id of that moment
batchSettled(w, req, ok) ==
    LET w1 == [w EXCEPT !.requests = @ \ {req},
                        !.tracker.stats =
                            IF ok THEN [@ EXCEPT !.batchesSent = @ + 1,
                                                 !.eventsSent = @ + Len(req.events)]
                            ELSE [@ EXCEPT !.errors = @ + 1]]
    IN  IF req.awaited
        THEN fetch(w1, "end", w1.tracker.sessionId, <<>>, FALSE, req.args)
        ELSE w1

\* a session-end request settles: endSession's catch and finally, then the
\* finally of endTrackingSession
endSettled(w, req, ok) ==
    [w EXCEPT !.requests = @ \ {req},
              !.tracker.stats.errors = IF ok THEN @ ELSE @ + 1,
              !.tracker.sessionId = Null,
              !.tracker.lastChordId = Null,
              !.tracking.lastPromptTimes = [up |-> Null, down |-> Null]]
\* a plausible slip: the two counters are not reset
startTrackingSession_KeepsCounts(w) ==
    IF ~w.trackingConfigured THEN w
    ELSE fetch([w EXCEPT !.tracking.sequence = 0,
                         !.tracking.lastPromptTimes = [up |-> w.now, down |-> w.now]],
               "start", Null, <<>>, FALSE, EndArgs(0, 0, 0))

\* a plausible slip: the sequence counter is not reset
startTrackingSession_NoReset(w) ==
    IF ~w.trackingConfigured THEN w
    ELSE fetch([w EXCEPT !.tracking.successCount = 0,
                         !.tracking.errorCount = 0,
                         !.tracking.lastPromptTimes = [up |-> w.now, down |-> w.now]],
               "start", Null, <<>>, FALSE, EndArgs(0, 0, 0))

\* startTrackingSession(), up to the await in tracker.startSession
startTrackingSession(w) ==
    IF ~w.trackingConfigured THEN w
    ELSE fetch([w EXCEPT !.tracking.sequence = 0,
                         !.tracking.successCount = 0,
                         !.tracking.errorCount = 0,
                         !.tracking.lastPromptTimes = [up |-> w.now, down |-> w.now]],
               "start", Null, <<>>, FALSE, EndArgs(0, 0, 0))

\* the session-start request settles: tracker.startSession goes on, then
\* startTrackingSession
startSettled(w, req, ok) ==
    [w EXCEPT !.requests = @ \ {req},
              !.tracker.sessionId = IF ok THEN req.n ELSE @,
              !.tracker.lastChordId = IF ok THEN Null ELSE @,
              !.tracker.stats.errors = IF ok THEN @ ELSE @ + 1,
              !.sessionActive = ok]

\* what the mapper hands to onAction when it has nothing to say
NoDetails == [present |-> FALSE, triggerNote |-> Null, midiNotes |-> <<>>]

\* the set of pitch classes buildChordSignature joins to a string
buildChordSignature(midiNotes) ==
    { ((midiNotes[i] % 12) + 12) % 12 : i \in DOMAIN midiNotes }

\* map.get(key) ?? null
GetOrNull(map, key) == IF key \in DOMAIN map THEN map[key] ELSE Null

\* lookupPlayedId(details)
lookupPlayedId(w, details) ==
    IF ~details.present THEN Null
    ELSE IF w.tracking.mode = "Note"
    THEN LET midi == IF details.triggerNote # Null THEN details.triggerNote
                     ELSE IF details.midiNotes # <<>> THEN details.midiNotes[1]
                     ELSE Null
         IN  IF midi = Null THEN Null
             ELSE GetOrNull(w.tracking.noteIdByPitchClass, ((midi % 12) + 12) % 12)
    ELSE IF details.midiNotes = <<>> THEN Null
    ELSE GetOrNull(w.tracking.chordIdBySignature,
                   buildChordSignature(details.midiNotes))

\* a plausible slip: any played note the tables know counts as a success
handlePianoAction_AnyPlayed(w, action, details) ==
    IF ~w.sessionActive \/ ~w.trackingConfigured THEN w
    ELSE LET expectedId == w.tracking.expectedIds[action]
         IN  IF Falsy(expectedId) THEN w
             ELSE LET playedId == lookupPlayedId(w, details)
                      previous == IF w.tracking.lastPromptTimes[action] = Null
                                  THEN w.now
                                  ELSE w.tracking.lastPromptTimes[action]
                      position == w.tracking.sequence + 1
                      w1 == [w EXCEPT !.tracking.lastPromptTimes[action] = w.now,
                                      !.tracking.sequence = position]
                      w2 == trackEvent(w1, expectedId, playedId,
                                       Max(0, w.now - previous), position,
                                       IF w.tracking.mode = "Note" THEN "right"
                                                                   ELSE "both")
                  IN  IF playedId # Null
                      THEN [w2 EXCEPT !.tracking.successCount = @ + 1]
                      ELSE [w2 EXCEPT !.tracking.errorCount = @ + 1]

\* a plausible slip: the guard does not test sessionActive
handlePianoAction_NoSessionTest(w, action, details) ==
    IF ~w.trackingConfigured THEN w
    ELSE LET expectedId == w.tracking.expectedIds[action]
         IN  IF Falsy(expectedId) THEN w
             ELSE LET playedId == lookupPlayedId(w, details)
                      previous == IF w.tracking.lastPromptTimes[action] = Null
                                  THEN w.now
                                  ELSE w.tracking.lastPromptTimes[action]
                      position == w.tracking.sequence + 1
                      w1 == [w EXCEPT !.tracking.lastPromptTimes[action] = w.now,
                                      !.tracking.sequence = position]
                      w2 == trackEvent(w1, expectedId, playedId,
                                       Max(0, w.now - previous), position,
                                       IF w.tracking.mode = "Note" THEN "right"
                                                                   ELSE "both")
                  IN  IF playedId # Null /\ playedId = expectedId
                      THEN [w2 EXCEPT !.tracking.successCount = @ + 1]
                      ELSE [w2 EXCEPT !.tracking.errorCount = @ + 1]

\* the details onAction is called with: none, or the triggering note C4
\* with the notes held, a C major triad
ActionDetails ==
    { NoDetails,
      [present |-> TRUE, triggerNote |-> 60, midiNotes |-> <<60, 64, 67>>] }

\* handlePianoAction(action, details); a details object carries no
\* timestamp, so the time of the action is Date.now()
handlePianoAction(w, action, details) ==
    IF ~w.sessionActive \/ ~w.trackingConfigured THEN w
    ELSE LET expectedId == w.tracking.expectedIds[action]
         IN  IF Falsy(expectedId) THEN w
             ELSE LET playedId == lookupPlayedId(w, details)
                      previous == IF w.tracking.lastPromptTimes[action] = Null
                                  THEN w.now
                                  ELSE w.tracking.lastPromptTimes[action]
                      position == w.tracking.sequence + 1
                      w1 == [w EXCEPT !.tracking.lastPromptTimes[action] = w.now,
                                      !.tracking.sequence = position]
                      w2 == trackEvent(w1, expectedId, playedId,
                                       Max(0, w.now - previous), position,
                                       IF w.tracking.mode = "Note" THEN "right"
                                                                   ELSE "both")
                  IN  IF playedId # Null /\ playedId = expectedId
                      THEN [w2 EXCEPT !.tracking.successCount = @ + 1]
                      ELSE [w2 EXCEPT !.tracking.errorCount = @ + 1]

\* gameOver(); v is the world it is called in, taken once
gameOver(w) ==
    CHOOSE ended \in
        { endTrackingSession([v EXCEPT !.gameRunning = FALSE,
                                       !.pending = @ \ {v.animationId},
                                       !.hidden.gameOver = FALSE,
                                       !.log.gameOvers = @ + 1]) : v \in {w} } : TRUE

\* a plausible slip: the contact is recorded without the test of the gate
markCollision_Always(w, pipe) ==
    [w EXCEPT !.pipeScrollEnabled = FALSE,
              !.lastCollisionY = w.bird.y,
              !.collisionPipe = [id |-> pipe.id, top |-> pipe.top,
                                 bottom |-> pipe.bottom],
              !.collisionTime = w.now,
              !.log.recorded = TRUE,
              !.log.hitWhileGated = ~w.pipeScrollEnabled]

\* "Pause scrolling and mark collision"
markCollision(w, pipe) ==
    IF w.pipeScrollEnabled
    THEN [w EXCEPT !.pipeScrollEnabled = FALSE,
                   !.lastCollisionY = w.bird.y,
                   !.collisionPipe = [id |-> pipe.id, top |-> pipe.top,
                                      bottom |-> pipe.bottom],
                   !.collisionTime = w.now,
                   !.log.recorded = TRUE]
    ELSE [w EXCEPT !.log.hitWhileGated = TRUE]

\* bounceDampening = 0.6
Dampened(v) == MulDiv(v, 6, 10)

\* the body of pipes.forEach in handlePracticeCollisions, for one pipe
practicePipe(w, pipe) ==
    LET inRange == /\ w.bird.x + birdRadius > pipe.x
                   /\ w.bird.x - birdRadius < pipe.x + pipeWidth
        \* "Top pipe collision"
        top(v) ==
            IF /\ inRange
               /\ v.bird.y - birdRadius < pipe.top
               /\ v.bird.y > pipe.top - birdRadius * 2
            THEN markCollision(
                    [v EXCEPT !.bird.y = pipe.top + birdRadius,
                              !.bird.velocity = Dampened(Abs(v.bird.velocity)),
                              !.log.hits = @ \cup {"top"}], pipe)
            ELSE v
        \* "Bottom pipe collision"
        bottom(v) ==
            IF /\ inRange
               /\ v.bird.y + birdRadius > pipe.bottom
               /\ v.bird.y < pipe.bottom + birdRadius * 2
            THEN markCollision(
                    [v EXCEPT !.bird.y = pipe.bottom - birdRadius,
                              !.bird.velocity = -Dampened(Abs(v.bird.velocity)),
                              !.log.hits = @ \cup {"bottom"}], pipe)
            ELSE v
        \* "Left side of pipe collision"; bird.velocityX || 2
        side(v) ==
            IF /\ v.bird.x + birdRadius > pipe.x
               /\ v.bird.x < pipe.x + pipeWidth \div 2
               /\ (v.bird.y < pipe.top \/ v.bird.y > pipe.bottom)
               /\ v.bird.x < pipe.x + birdRadius
            THEN markCollision(
                    [v EXCEPT !.bird.x = pipe.x - birdRadius - 1000,
                              !.bird.velocityX =
                                  -Dampened(Abs(IF v.bird.velocityX # 0
                                                THEN v.bird.velocityX
                                                ELSE sideImpulse)),
                              !.bird.velocity = Dampened(v.bird.velocity),
                              !.log.hits = @ \cup {"side"}], pipe)
            ELSE v
    IN  side(bottom(top(w)))

RECURSIVE practicePipes(_, _)
\* pipes.forEach(...) of handlePracticeCollisions, from pipe i on
practicePipes(w, i) ==
    IF i > Len(w.pipes) THEN w
    ELSE practicePipes(practicePipe(w, w.pipes[i]), i + 1)
\* a plausible slip: the ceiling is not tested
handlePracticeCollisions_NoCeiling(w) ==
    LET wGround == IF w.bird.y + birdRadius > CanvasHeight - groundMargin
                   THEN [w EXCEPT !.bird.y = CanvasHeight - groundMargin - birdRadius,
                                  !.bird.velocity = -Dampened(Abs(w.bird.velocity)),
                                  !.log.hits = @ \cup {"ground"}]
                   ELSE w
    IN  practicePipes(wGround, 1)

\* a plausible slip: the ground branch reflects the velocity without the
\* energy loss
handlePracticeCollisions_NoLoss(w) ==
    LET wGround == IF w.bird.y + birdRadius > CanvasHeight - groundMargin
                   THEN [w EXCEPT !.bird.y = CanvasHeight - groundMargin - birdRadius,
                                  !.bird.velocity = -Abs(w.bird.velocity),
                                  !.log.hits = @ \cup {"ground"}]
                   ELSE w
        wCeiling == IF wGround.bird.y - birdRadius < 0
                    THEN [wGround EXCEPT !.bird.y = birdRadius,
                                         !.bird.velocity = Dampened(Abs(wGround.bird.velocity)),
                                         !.log.hits = @ \cup {"ceiling"}]
                    ELSE wGround
    IN  practicePipes(wCeiling, 1)

\* handlePracticeCollisions()
handlePracticeCollisions(w) ==
    LET wGround == IF w.bird.y + birdRadius > CanvasHeight - groundMargin
                   THEN [w EXCEPT !.bird.y = CanvasHeight - groundMargin - birdRadius,
                                  !.bird.velocity = -Dampened(Abs(w.bird.velocity)),
                                  !.log.hits = @ \cup {"ground"}]
                   ELSE w
        wCeiling == IF wGround.bird.y - birdRadius < 0
                    THEN [wGround EXCEPT !.bird.y = birdRadius,
                                         !.bird.velocity = Dampened(Abs(wGround.bird.velocity)),
                                         !.log.hits = @ \cup {"ceiling"}]
                    ELSE wGround
    IN  practicePipes(wCeiling, 1)

RECURSIVE normalPipes(_, _)
\* pipes.forEach(...) of checkCollisions in normal mode, from pipe i on
normalPipes(w, i) ==
    IF i > Len(w.pipes) THEN w
    ELSE LET pipe == w.pipes[i]
             hit == /\ w.bird.x + birdRadius > pipe.x
                    /\ w.bird.x - birdRadius < pipe.x + pipeWidth
                    /\ \/ w.bird.y - birdRadius < pipe.top
                       \/ w.bird.y + birdRadius > pipe.bottom
         IN  normalPipes(IF hit THEN gameOver([w EXCEPT !.log.hits = @ \cup {"pipe"}])
                         ELSE w, i + 1)

\* a plausible slip: the practice mode flag is not consulted
checkCollisions_NoPractice(w) ==
    IF \/ w.bird.y + birdRadius > CanvasHeight - groundMargin
       \/ w.bird.y - birdRadius < 0
    THEN gameOver([w EXCEPT !.log.hits = @ \cup {"bounds"}])
    ELSE normalPipes(w, 1)

\* checkCollisions()
checkCollisions(w) ==
    IF w.practiceMode THEN handlePracticeCollisions(w)
    ELSE IF \/ w.bird.y + birdRadius > CanvasHeight - groundMargin
            \/ w.bird.y - birdRadius < 0
    THEN gameOver([w EXCEPT !.log.hits = @ \cup {"bounds"}])
    ELSE normalPipes(w, 1)

\* history: the parts of the world that differ between w and v
Touched(w, v) ==
    UNION { { f \in DOMAIN p[1] \ {"log"} : p[2][f] # p[1][f] } : p \in {<<w, v>>} }

\* requestAnimationFrame: a handle that names no pending callback (and not
\* the handle animationId still holds)
FreshId(w) ==
    CHOOSE i \in 1..(MaxLoops + 3) :
        /\ i \notin w.pending \cup {w.animationId}
        /\ \A j \in 1..(i - 1) : j \in w.pending \cup {w.animationId}
\* a plausible slip: the collisions are checked before the pipes scroll
gameLoop_CollideFirst(w, topHeight) ==
    LET w0 == [w EXCEPT !.log = EmptyLog]
        \* requestAnimationFrame(gameLoop), and the history of the frame
        scheduled(w2, w3) ==
            LET id == FreshId(w3)
            IN  [w3 EXCEPT !.animationId = id, !.pending = @ \cup {id},
                           !.log.touched = Touched(w2, w3)]
        collided(w2) == scheduled(w2, updatePipes(checkCollisions(w2), topHeight))
    IN  IF ~w.gameRunning \/ w.gamePaused THEN w0
        ELSE collided(updateBird([w0 EXCEPT !.log.ran = TRUE, !.framesRun = @ + 1]))

\* a plausible slip: the guard does not test gamePaused
gameLoop_NoPauseTest(w, topHeight) ==
    LET w0 == [w EXCEPT !.log = EmptyLog]
        \* requestAnimationFrame(gameLoop), and the history of the frame
        scheduled(w2, w3) ==
            LET id == FreshId(w3)
            IN  [w3 EXCEPT !.animationId = id, !.pending = @ \cup {id},
                           !.log.touched = Touched(w2, w3)]
        collided(w2) == scheduled(w2, checkCollisions(w2))
    IN  IF ~w.gameRunning THEN w0
        ELSE collided(updatePipes(updateBird([w0 EXCEPT !.log.ran = TRUE,
                                                        !.framesRun = @ + 1]),
                                  topHeight))

\* a plausible slip: the guard tests the pause alone
gameLoop_NoRunningTest(w, topHeight) ==
    LET w0 == [w EXCEPT !.log = EmptyLog]
        \* requestAnimationFrame(gameLoop), and the history of the frame
        scheduled(w2, w3) ==
            LET id == FreshId(w3)
            IN  [w3 EXCEPT !.animationId = id, !.pending = @ \cup {id},
                           !.log.touched = Touched(w2, w3)]
        collided(w2) == scheduled(w2, checkCollisions(w2))
    IN  IF w.gamePaused THEN w0
        ELSE collided(updatePipes(updateBird([w0 EXCEPT !.log.ran = TRUE,
                                                        !.framesRun = @ + 1]),
                                  topHeight))

\* gameLoop()
gameLoop(w, topHeight) ==
    LET w0 == [w EXCEPT !.log = EmptyLog]
        \* requestAnimationFrame(gameLoop), and the history of the frame
        scheduled(w2, w3) ==
            LET id == FreshId(w3)
            IN  [w3 EXCEPT !.animationId = id, !.pending = @ \cup {id},
                           !.log.touched = Touched(w2, w3)]
        collided(w2) == scheduled(w2, checkCollisions(w2))
    IN  IF ~w.gameRunning \/ w.gamePaused THEN w0
        ELSE collided(updatePipes(updateBird([w0 EXCEPT !.log.ran = TRUE,
                                                        !.framesRun = @ + 1]),
                                  topHeight))

\* init()
init(w) ==
    [w EXCEPT !.bird = [x |-> w.bird.x, y |-> CanvasHeight \div 2,
                        velocity |-> 0, velocityX |-> 0],
              !.pipes = <<>>,
              !.frameCount = 0,
              !.pipeScrollEnabled = TRUE,
              !.lastCollisionY = 0,
              !.collisionPipe = NoPipe,
              !.collisionTime = 0]

\* pauseGame()
pauseGame(w) == [w EXCEPT !.gamePaused = TRUE, !.hidden.pause = FALSE]

\* resumeGame()
resumeGame(w, topHeight) ==
    gameLoop([w EXCEPT !.gamePaused = FALSE, !.hidden.pause = TRUE], topHeight)

(***************************************************************************)
(* The state as one world record, and back.                                *)
(***************************************************************************)
World ==
    [ usePiano |-> usePiano, mapperUp |-> state.up, mapperDown |-> state.down,
      gameSpeed |-> gameSpeed, gameRunning |-> gameRunning,
      gamePaused |-> gamePaused, animationId |-> animationId,
      practiceMode |-> practiceMode,
      pipeScrollEnabled |-> pipeScrollEnabled, lastCollisionY |-> lastCollisionY,
      collisionPipe |-> collisionPipe, collisionTime |-> collisionTime,
      bird |-> bird, keyboardState |-> keyboardState,
      pipes |-> pipes, frameCount |-> frameCount,
      pending |-> pending, hidden |-> hidden, now |-> now,
      sessionActive |-> sessionActive,
      trackingConfigured |-> trackingConfigured,
      tracking |-> trackingState, tracker |-> tracker,
      requests |-> requests, sent |-> sent,
      log |-> frameLog, framesRun |-> framesRun ]

\* the game's variables take the values of world w (v is w, taken once)
Becomes(w) ==
    \E v \in {w} :
        /\ gameSpeed' = v.gameSpeed
        /\ gameRunning' = v.gameRunning
        /\ gamePaused' = v.gamePaused
        /\ animationId' = v.animationId
        /\ practiceMode' = v.practiceMode
        /\ pipeScrollEnabled' = v.pipeScrollEnabled
        /\ lastCollisionY' = v.lastCollisionY
        /\ collisionPipe' = v.collisionPipe
        /\ collisionTime' = v.collisionTime
        /\ bird' = v.bird
        /\ keyboardState' = v.keyboardState
        /\ pipes' = v.pipes
        /\ frameCount' = v.frameCount
        /\ pending' = v.pending
        /\ hidden' = v.hidden
        /\ sessionActive' = v.sessionActive
        /\ trackingState' = v.tracking
        /\ tracker' = v.tracker
        /\ requests' = v.requests
        /\ sent' = v.sent
        /\ frameLog' = v.log
        /\ framesRun' = v.framesRun
        /\ now' = v.now
        /\ UNCHANGED <<usePiano, trackingConfigured>>

\* the tops a frame may draw: one value unless the frame spawns a pipe
TopsFor(w) == IF spawnsPipe(w) THEN TopHeights ELSE {minHeight}

\* trackingState as the script sets it up: no reference data, no expected ids
NoTracking ==
    [ mode |-> "Note",
      noteIdByPitchClass |-> << >>, chordIdBySignature |-> << >>,
      chordsMeta |-> << >>,
      expectedIds |-> [up |-> Null, down |-> Null],
      sequence |-> 0,
      lastPromptTimes |-> [up |-> Null, down |-> Null],
      successCount |-> 0, errorCount |-> 0 ]

\* the tracker as its constructor leaves it (or no tracker: then no code
\* reads these fields)
NoTracker ==
    [ sessionId |-> Null, lastChordId |-> Null,
      eventQueue |-> << >>, batchTimer |-> FALSE,
      stats |-> [eventsSent |-> 0, batchesSent |-> 0, errors |-> 0] ]

\* QUALITY_ALIASES, by the chord type of the configuration
QUALITY_ALIASES ==
    ( "Major" :> {"major", "maj"} @@ "Minor" :> {"minor", "min"} @@
      "Diminished" :> {"diminished", "dim"} @@
      "Augmented" :> {"augmented", "aug"} )

\* buildChordLookups(chords), for the chords of the key as the server lists
\* them: [chordId, root, quality, triad, rootPosition, pitchClasses].  The
\* signature of a chord is the set of its pitch classes; a later chord takes
\* the signature of an earlier one, the first chord of one pitch class gives
\* the note id of that pitch class
buildChordLookups(t, chords) ==
    LET signed == { i \in DOMAIN chords : chords[i].pitchClasses # {} }
        single == { i \in DOMAIN chords : Cardinality(chords[i].pitchClasses) = 1 }
        Last(S) == CHOOSE i \in S : \A j \in S : j <= i
        First(S) == CHOOSE i \in S : \A j \in S : i <= j
    IN  [t EXCEPT
          !.chordsMeta = chords,
          !.chordIdBySignature =
              [sig \in { chords[i].pitchClasses : i \in signed } |->
                  chords[Last({ i \in signed : chords[i].pitchClasses = sig })].chordId],
          !.noteIdByPitchClass =
              [pc \in UNION { chords[i].pitchClasses : i \in single } |->
                  chords[First({ i \in single : chords[i].pitchClasses = {pc} })].chordId]]

\* getPitchClassFromNote(note); the names of the configuration are in the
\* form normalizeNoteName gives them
getPitchClassFromNote(note) ==
    IF note \in DOMAIN noteToMidi THEN ((noteToMidi[note] % 12) + 12) % 12
    ELSE Null

\* findChordIdForConfig(root, chordTypeLabel)
findChordIdForConfig(t, root, chordTypeLabel) ==
    LET allowed == IF chordTypeLabel \in DOMAIN QUALITY_ALIASES
                   THEN QUALITY_ALIASES[chordTypeLabel] ELSE {}
        candidates == SelectSeq(t.chordsMeta,
                          LAMBDA m : /\ m.root = root /\ m.quality \in allowed
                                     /\ m.rootPosition /\ m.triad)
        byRoot == SelectSeq(t.chordsMeta, LAMBDA m : m.root = root)
    IN  IF candidates # <<>> THEN candidates[1].chordId
        ELSE IF byRoot # <<>> THEN byRoot[1].chordId
        ELSE Null

\* refreshExpectedIdsFromConfig()
refreshExpectedIdsFromConfig(t, cfg) ==
    [t EXCEPT
      !.mode = cfg.mode,
      !.expectedIds =
          IF cfg.mode = "Note" /\ DOMAIN t.noteIdByPitchClass # {}
          THEN LET upPitch == getPitchClassFromNote(cfg.upNote)
                   downPitch == getPitchClassFromNote(cfg.downNote)
               IN  [up |-> IF upPitch # Null
                           THEN GetOrNull(t.noteIdByPitchClass, upPitch) ELSE Null,
                    down |-> IF downPitch # Null
                             THEN GetOrNull(t.noteIdByPitchClass, downPitch) ELSE Null]
          ELSE IF cfg.mode = "Chord" /\ t.chordsMeta # <<>>
          THEN [up |-> findChordIdForConfig(t, cfg.upChord, cfg.upChordType),
                down |-> findChordIdForConfig(t, cfg.downChord, cfg.downChordType)]
          ELSE [up |-> Null, down |-> Null]]

\* a chord of the server's list
Chord(chordId, root, quality, triad, pitchClasses) ==
    [chordId |-> chordId, root |-> root, quality |-> quality, triad |-> triad,
     rootPosition |-> TRUE, pitchClasses |-> pitchClasses]

\* the chords of the key on the server: the notes C (twice), G and E and
\* the triads of C (in two voicings) and G
AllChords ==
    << Chord(42, "C", "", FALSE, {0}), Chord(45, "C", "", FALSE, {0}),
       Chord(43, "G", "", FALSE, {7}), Chord(44, "E", "", FALSE, {4}),
       Chord(50, "C", "major", TRUE, {0, 4, 7}),
       Chord(52, "C", "major", TRUE, {0, 4, 7}),
       Chord(51, "G", "maj", TRUE, {2, 7, 11}) >>

\* the lists the server may answer /api/chords with: all chords; the same
\* without the single notes G and E; nothing
ChordLists ==
    { AllChords,
      << Chord(42, "C", "", FALSE, {0}),
         Chord(50, "C", "major", TRUE, {0, 4, 7}),
         Chord(51, "G", "maj", TRUE, {2, 7, 11}) >>,
      << >> }

\* configureTrackingForPiano() with the piano enabled: the tracker is made,
\* the reference data loaded and the expected ids looked up
configureTrackingForPiano(w, cfg, chords) ==
    LET t == refreshExpectedIdsFromConfig(buildChordLookups(w.tracking, chords), cfg)
    IN  [w EXCEPT !.tracking = t,
                  !.trackingConfigured = w.usePiano /\ ~Falsy(t.expectedIds.up)
                                                   /\ ~Falsy(t.expectedIds.down)]

\* the world when the page has loaded, init() has run, and the player has
\* left the piano configuration screen for the start screen
FreshWorld ==
    [ usePiano |-> FALSE, mapperUp |-> FALSE, mapperDown |-> FALSE,
      gameSpeed |-> 10, gameRunning |-> FALSE,
      gamePaused |-> FALSE, animationId |-> NoId,
      practiceMode |-> FALSE,
      pipeScrollEnabled |-> TRUE, lastCollisionY |-> 0,
      collisionPipe |-> NoPipe, collisionTime |-> 0,
      bird |-> [x |-> birdRestX, y |-> CanvasHeight \div 2, velocity |-> 0,
                velocityX |-> 0],
      keyboardState |-> [up |-> FALSE, down |-> FALSE],
      pipes |-> <<>>, frameCount |-> 0,
      pending |-> {}, hidden |-> [start |-> FALSE, gameOver |-> TRUE, pause |-> TRUE],
      now |-> 0,
      sessionActive |-> FALSE,
      trackingConfigured |-> FALSE,
      tracking |-> NoTracking, tracker |-> NoTracker,
      requests |-> {}, sent |-> <<>>,
      log |-> EmptyLog, framesRun |-> 0 ]

\* the game's variables have the values of world w
IsWorld(w) ==
    /\ usePiano = w.usePiano
    /\ gameSpeed = w.gameSpeed
    /\ gameRunning = w.gameRunning
    /\ gamePaused = w.gamePaused
    /\ animationId = w.animationId
    /\ practiceMode = w.practiceMode
    /\ pipeScrollEnabled = w.pipeScrollEnabled
    /\ lastCollisionY = w.lastCollisionY
    /\ collisionPipe = w.collisionPipe
    /\ collisionTime = w.collisionTime
    /\ bird = w.bird
    /\ keyboardState = w.keyboardState
    /\ pipes = w.pipes
    /\ frameCount = w.frameCount
    /\ pending = w.pending
    /\ hidden = w.hidden
    /\ now = w.now
    /\ sessionActive = w.sessionActive
    /\ trackingConfigured = w.trackingConfigured
    /\ trackingState = w.tracking
    /\ tracker = w.tracker
    /\ requests = w.requests
    /\ sent = w.sent
    /\ frameLog = w.log
    /\ framesRun = w.framesRun
    /\ startAwait = FALSE

GameInit == IsWorld(FreshWorld)

(***************************************************************************)
(* Runs in progress.  A run is brought to a later frame by the handlers    *)
(* themselves: the start click, then, for each segment of a plan, the      *)
(* arrow keys set as the segment says, the clock advanced, and that many   *)
(* animation-frame callbacks run.                                          *)
(***************************************************************************)
RECURSIVE RunFrames(_, _, _)
RunFrames(w, n, topHeight) ==
    IF w.pending = {} \/ n = 0 THEN w
    ELSE LET id == CHOOSE i \in w.pending : TRUE
         IN  RunFrames(gameLoop([w EXCEPT !.pending = @ \ {id}], topHeight),
                       n - 1, topHeight)

RECURSIVE FastForward(_, _)
FastForward(w, plan) ==
    IF plan = <<>> THEN w
    ELSE LET seg == Head(plan)
             wk == [w EXCEPT !.keyboardState = [up |-> seg.up, down |-> seg.down],
                             !.now = @ + seg.ms]
         IN  FastForward(RunFrames(wk, seg.frames, seg.top), Tail(plan))

\* the world after the start click (tracking not configured) and a plan;
\* the frame budget counts from here
RunInProgress(gs, practice, plan) ==
    LET w0 == init([FreshWorld EXCEPT !.gameSpeed = gs,
                                      !.practiceMode = practice,
                                      !.hidden.start = TRUE,
                                      !.gameRunning = TRUE])
        w1 == FastForward(gameLoop(w0, minHeight), plan)
    IN  [w1 EXCEPT !.framesRun = 0]

\* a segment of a plan
Seg(up, down, frames, ms, top) ==
    [up |-> up, down |-> down, frames |-> frames, ms |-> ms, top |-> top]

MapperInit ==
    /\ config = InitialConfig
    /\ state = [up |-> FALSE, down |-> FALSE]
    /\ activeNotes = {}
    /\ heldByLog = {}
    /\ connectedDevices = {}
    /\ isConnected = FALSE
    /\ initLog = NoInit
    /\ configLog = <<>>

\* a device delivers one 3-byte message
MidiMessage ==
    \E status \in StatusBytes, note \in Pitches, velocity \in Velocities :
        /\ \/ ~(status = 144 /\ velocity > 0)
           \/ note \in activeNotes
           \/ Cardinality(activeNotes) < MaxHeld
        /\ handleMIDI(status, note, velocity)
        /\ UNCHANGED gameVars

\* the configuration screen applies a configuration
ConfigChange ==
    /\ \E newConfig \in ConfigUpdates : updateConfig(newConfig)
    /\ UNCHANGED <<configLog, gameVars>>

MapperNext == MidiMessage \/ ConfigChange

InitMapper == MapperInit /\ GameInit

SpecMapper == InitMapper /\ [][MapperNext]_vars

(***************************************************************************)
(* Setting the mapper up: init() and the configuration screen.             *)
(***************************************************************************)
\* savePianoConfigButton click: pianoMapper.init() with one outcome of
\* requestMIDIAccess
MidiInit ==
    /\ \E access \in MidiAccesses : PianoInputMapper_init(access)
    /\ UNCHANGED <<config, state, activeNotes, heldByLog, configLog, gameVars>>

\* updateConfigPreview(): the configuration screen applies a configuration,
\* and the update is kept in the history
ConfigApplied ==
    /\ Len(configLog) < MaxUpdates
    /\ \E newConfig \in ConfigUpdates :
          /\ updateConfig(newConfig)
          /\ configLog' = Append(configLog, newConfig)
    /\ UNCHANGED gameVars

NextSetup == MidiInit \/ ConfigApplied

SpecSetup == InitMapper /\ [][NextSetup]_vars

(***************************************************************************)
(* Properties of the mapper, checked under SpecMapper.                     *)
(***************************************************************************)
\* the pitch classes of the target triad of (rootNote, chordType)
TriadOf(rootNote, chordType) ==
    { (noteToMidi[rootNote] + chordPatterns[chordType][i]) % 12 : i \in 1..3 }

\* the deduplicated pitch classes of a held set
PitchClassesOf(notes) == { n % 12 : n \in notes }

IsTriadTarget(rootNote, chordType) ==
    rootNote \in DOMAIN noteToMidi /\ chordType \in DOMAIN chordPatterns

\* C1: in every reachable state the action flags equal the current mode's
\* matching rule evaluated on the current (activeNotes, config).
C1_StateIsFunctionOfNotesAndConfig ==
    /\ state.up = (IF config.mode = "Note"
                   THEN isNotePressed(activeNotes, config.upNote)
                   ELSE isChordPressed(activeNotes, config.upChord, config.upChordType))
    /\ state.down = (IF config.mode = "Note"
                     THEN isNotePressed(activeNotes, config.downNote)
                     ELSE isChordPressed(activeNotes, config.downChord,
                                         config.downChordType))

\* C1 witness: notes are held, a configuration change has switched the mode to
\* Chord, and the recomputed up flag is set.
C1_Witness ==
    /\ config.mode = "Chord"
    /\ config.upChord = "A" /\ config.upChordType = "Minor"
    /\ activeNotes = {60, 64, 69}
    /\ state.up /\ ~state.down

\* C2 (as claimed): in Chord mode, for a triad target, the action is set iff
\* the deduplicated pitch classes of the held pitches equal the triad.
C2_ChordIffPitchClassSetEqual ==
    config.mode = "Chord" =>
        /\ IsTriadTarget(config.upChord, config.upChordType) =>
              (state.up <=> PitchClassesOf(activeNotes)
                               = TriadOf(config.upChord, config.upChordType))
        /\ IsTriadTarget(config.downChord, config.downChordType) =>
              (state.down <=> PitchClassesOf(activeNotes)
                                 = TriadOf(config.downChord, config.downChordType))

\* C3: in Note mode the action is set iff some held pitch n is an octave
\* transposition of the target's pitch class (n = 12 * octave + pitchClass);
\* a note name the table lacks gives FALSE.
NotePressedByOctave(noteName) ==
    /\ noteName \in DOMAIN noteToMidi
    /\ \E n \in activeNotes : \E octave \in 0..10 :
           n = 12 * octave + noteToMidi[noteName]

C3_NoteIffPitchClassHeld ==
    config.mode = "Note" =>
        /\ state.up <=> NotePressedByOctave(config.upNote)
        /\ state.down <=> NotePressedByOctave(config.downNote)

\* C3 witness: Note mode with up = C, only C5 (72) held: up is set by a pitch
\* an octave above middle C.
C3_Witness ==
    /\ config.mode = "Note" /\ config.upNote = "C"
    /\ activeNotes = {72}
    /\ state.up /\ ~state.down

\* C4: strict chord match. In Chord mode a held pitch outside the target
\* triad clears the action; and with up = C Major, a note-on for 65 on
\* {60,64,67} clears up, and the note-off for 65 sets it again.
CMajorUp ==
    config.mode = "Chord" /\ config.upChord = "C" /\ config.upChordType = "Major"

StrictChord ==
    config.mode = "Chord" =>
        /\ ( /\ IsTriadTarget(config.upChord, config.upChordType)
             /\ \E n \in activeNotes :
                    n % 12 \notin TriadOf(config.upChord, config.upChordType) )
           => ~state.up
        /\ ( /\ IsTriadTarget(config.downChord, config.downChordType)
             /\ \E n \in activeNotes :
                    n % 12 \notin TriadOf(config.downChord, config.downChordType) )
           => ~state.down

C4_StrictChordMatch ==
    /\ StrictChord
    /\ [][ /\ StrictChord'
           /\ ( CMajorUp /\ CMajorUp' /\ activeNotes = {60, 64, 67}
                /\ activeNotes' = {60, 64, 65, 67} )
              => (state.up /\ ~state.up')
           /\ ( CMajorUp /\ CMajorUp' /\ activeNotes = {60, 64, 65, 67}
                /\ activeNotes' = {60, 64, 67} )
              => (~state.up /\ state.up') ]_vars

\* C4 witness: C Major is the up chord, C-E-G plus F are held, up is clear.
C4_Witness ==
    /\ CMajorUp
    /\ activeNotes = {60, 64, 65, 67}
    /\ ~state.up

\* C5: the held set is exactly the set of pitches whose latest note-on or
\* note-off message was a note-on (0x90 with velocity > 0); messages that are
\* neither leave it as it was.
C5_ActiveNotesFollowMessages ==
    activeNotes = heldByLog

\* C5 witness: two keys are down after other keys were pressed and released.
C5_Witness ==
    /\ activeNotes = {60, 72}
    /\ heldByLog = {60, 72}
    /\ state.up

(***************************************************************************)
(* game.js: the handlers.                                                  *)
(***************************************************************************)
\* startButton click, up to "await startTrackingSession()".  With tracking
\* not configured the await resumes before any other event, so gameLoop()
\* runs in the same step; otherwise the handler waits for the session-start
\* request.
StartClickAt(speeds, modes) ==
    /\ ~hidden.start
    /\ ~startAwait
    /\ \E gs \in speeds, practice \in modes :
          LET w1 == init([World EXCEPT !.gameSpeed = gs,
                                       !.practiceMode = practice,
                                       !.hidden.start = TRUE,
                                       !.gameRunning = TRUE])
          IN  IF trackingConfigured
              THEN /\ Becomes(startTrackingSession(w1))
                   /\ startAwait' = TRUE
              ELSE /\ \E topHeight \in TopsFor(w1) : Becomes(gameLoop(w1, topHeight))
                   /\ startAwait' = FALSE
    /\ UNCHANGED mapperVars

StartClick == StartClickAt(GameSpeeds, BOOLEAN)

\* the session-start request settles (with a session id, or failing) and the
\* click handler goes on to gameLoop()
StartContinue ==
    /\ startAwait
    /\ framesRun < MaxFrames
    /\ \E req \in requests, ok \in BOOLEAN :
          /\ req.kind = "start"
          /\ ok \/ tracker.stats.errors < MaxErrors
          /\ LET w1 == startSettled(World, req, ok)
             IN  \E topHeight \in TopsFor(w1) : Becomes(gameLoop(w1, topHeight))
    /\ startAwait' = FALSE
    /\ UNCHANGED mapperVars

\* the events of the first n requests issued
RECURSIVE EventsTracked(_)
EventsTracked(n) ==
    IF n = 0 THEN 0 ELSE Len(sent[n].events) + EventsTracked(n - 1)

\* the mapper's onAction callback is called, which game.js sets to
\* handlePianoAction
PianoAction ==
    /\ trackingState.sequence < MaxEvents
    /\ EventsTracked(Len(sent)) + Len(tracker.eventQueue) < MaxEvents
    /\ \E action \in {"up", "down"}, details \in ActionDetails :
          Becomes(handlePianoAction(World, action, details))
    /\ UNCHANGED <<startAwait, mapperVars>>

\* the batch timeout of the tracker fires
BatchTimeout ==
    /\ tracker.batchTimer
    /\ Becomes(flushQueue(World, FALSE, EndArgs(0, 0, 0)))
    /\ UNCHANGED <<startAwait, mapperVars>>

\* a batch request settles, well or not
BatchSettled ==
    /\ \E req \in requests, ok \in BOOLEAN :
          /\ req.kind = "batch"
          /\ ok \/ tracker.stats.errors < MaxErrors
          /\ Becomes(batchSettled(World, req, ok))
    /\ UNCHANGED <<startAwait, mapperVars>>

\* a session-end request settles, well or not
EndSettled ==
    /\ \E req \in requests, ok \in BOOLEAN :
          /\ req.kind = "end"
          /\ ok \/ tracker.stats.errors < MaxErrors
          /\ Becomes(endSettled(World, req, ok))
    /\ UNCHANGED <<startAwait, mapperVars>>

\* restartButton click
RestartClick ==
    /\ ~hidden.gameOver
    /\ Becomes(init([World EXCEPT !.hidden.gameOver = TRUE,
                                  !.hidden.start = FALSE]))
    /\ UNCHANGED <<startAwait, mapperVars>>

\* resumeButton click
ResumeClick ==
    /\ ~hidden.pause
    /\ framesRun < MaxFrames
    /\ Cardinality(pending) < MaxLoops
    /\ \E topHeight \in TopsFor([World EXCEPT !.gamePaused = FALSE]) :
          Becomes(resumeGame(World, topHeight))
    /\ UNCHANGED <<startAwait, mapperVars>>

\* the keydown listener, for one key code
keydown(w, code, topHeight) ==
    IF w.gameRunning /\ code \in {"Escape", "KeyP"}
    THEN IF w.gamePaused THEN resumeGame(w, topHeight) ELSE pauseGame(w)
    ELSE IF ~w.gameRunning \/ w.gamePaused THEN w
    ELSE IF code = "ArrowUp" THEN [w EXCEPT !.keyboardState.up = TRUE]
    ELSE IF code = "ArrowDown" THEN [w EXCEPT !.keyboardState.down = TRUE]
    ELSE w

\* the keyup listener, for one key code
keyup(w, code) ==
    IF code = "ArrowUp" THEN [w EXCEPT !.keyboardState.up = FALSE]
    ELSE IF code = "ArrowDown" THEN [w EXCEPT !.keyboardState.down = FALSE]
    ELSE w

\* Escape or P is pressed
PauseKey ==
    /\ framesRun < MaxFrames
    /\ Cardinality(pending) < MaxLoops
    /\ \E code \in {"Escape", "KeyP"} :
          \E topHeight \in TopsFor([World EXCEPT !.gamePaused = FALSE]) :
              Becomes(keydown(World, code, topHeight))
    /\ UNCHANGED <<startAwait, mapperVars>>

\* an arrow key goes down
ArrowDownEvent ==
    /\ framesRun < InputFrames
    /\ \E code \in {"ArrowUp", "ArrowDown"} :
          Becomes(keydown(World, code, minHeight))
    /\ UNCHANGED <<startAwait, mapperVars>>

\* an arrow key goes up
ArrowUpEvent ==
    /\ framesRun < InputFrames
    /\ \E code \in {"ArrowUp", "ArrowDown"} :
          Becomes(keyup(World, code))
    /\ UNCHANGED <<startAwait, mapperVars>>

\* the browser runs a scheduled animation-frame callback
FrameCallback ==
    /\ framesRun < MaxFrames
    /\ \E id \in pending :
          LET w1 == [World EXCEPT !.pending = @ \ {id}]
          IN  \E topHeight \in TopsFor(w1) : Becomes(gameLoop(w1, topHeight))
    /\ UNCHANGED <<startAwait, mapperVars>>

\* the browser runs a scheduled animation-frame callback TickMs after the
\* latest event
TimedFrame ==
    /\ now < MaxLiveNow
    /\ \E id \in pending :
          LET w1 == [World EXCEPT !.pending = @ \ {id}, !.now = @ + TickMs]
          IN  \E topHeight \in TopsFor(w1) : Becomes(gameLoop(w1, topHeight))
    /\ UNCHANGED <<startAwait, mapperVars>>

\* wall clock time passes (Date.now() grows)
Tick ==
    /\ now < MaxNow
    /\ now' = now + TickMs
    /\ UNCHANGED <<usePiano, gameSpeed, gameRunning, gamePaused, animationId,
                   practiceMode, pipeScrollEnabled, lastCollisionY, collisionPipe,
                   collisionTime, bird, keyboardState, pipes, frameCount, pending,
                   startAwait, hidden, sessionActive, trackingConfigured,
                   trackingState, tracker, requests, sent,
                   frameLog, framesRun, mapperVars>>

(***************************************************************************)
(* Runs in progress the specifications start from: all at speed 2.0, where *)
(* a pipe spawns every 45 frames and the first pipe reaches the bird in    *)
(* frame 121.  The bird moves at most 8 px per frame.                      *)
(***************************************************************************)
Hold(up, down, frames, top) == Seg(up, down, frames, 0, top)

\* practice: up held from the start; the bird is at the ceiling, the first
\* pipe (top 50 px) one frame away
PlanCeiling ==
    << Hold(TRUE, FALSE, 40, minHeight), Hold(TRUE, FALSE, 40, minHeight),
       Hold(TRUE, FALSE, 39, minHeight) >>

\* practice: no key; the bird rests on the ground, the first pipe (gap
\* 200..350 px) one frame away
PlanGround ==
    << Hold(FALSE, FALSE, 40, 200000), Hold(FALSE, FALSE, 40, 200000),
       Hold(FALSE, FALSE, 39, 200000) >>

\* practice: as PlanGround, then 45 more frames against the pipe's side
\* while half a second passes: the contact is recorded, the horizontal
\* bounce has nearly decayed
PlanGroundStuck ==
    PlanGround \o << Hold(FALSE, FALSE, 5, 200000),
                     Seg(FALSE, FALSE, 40, TickMs, 200000) >>

\* practice: as PlanGroundStuck with one or two frames more: the horizontal
\* bounce ends, and the bird is back against the pipe's side, within the
\* next two frames
PlanGroundPressed(more) ==
    PlanGround \o << Hold(FALSE, FALSE, 5 + more, 200000),
                     Seg(FALSE, FALSE, 40, TickMs, 200000) >>

PressedRuns == { RunInProgress(20, TRUE, PlanGroundPressed(more)) : more \in 1..2 }

\* practice: from the ground, up held for the last 22 frames; the bird rises
\* through the gap (349..499 px) and meets the upper pipe's edge four frames
\* later
PlanRise ==
    << Hold(FALSE, FALSE, 40, 349000), Hold(FALSE, FALSE, 40, 349000),
       Hold(FALSE, FALSE, 17, 349000), Hold(TRUE, FALSE, 22, 349000) >>

\* practice: from the ceiling, down held for the last 42 frames; the bird
\* sinks through the gap (200..350 px) and meets the lower pipe's edge four
\* frames later
PlanSink ==
    << Hold(TRUE, FALSE, 40, 200000), Hold(TRUE, FALSE, 40, 200000),
       Hold(FALSE, TRUE, 42, 200000) >>

\* practice: from the ceiling, down held for the last 39 frames; the bird
\* dives below the gap (50..200 px), the first pipe one frame away
PlanDive ==
    << Hold(TRUE, FALSE, 40, minHeight), Hold(TRUE, FALSE, 40, minHeight),
       Hold(FALSE, TRUE, 39, minHeight) >>

\* normal mode: no key; the bird falls and is a few frames above the ground
PlanFall ==
    << Hold(FALSE, FALSE, 40, 200000), Hold(FALSE, FALSE, 14, 200000) >>

PracticeRuns ==
    { RunInProgress(20, TRUE, PlanCeiling),
      RunInProgress(20, TRUE, PlanGround),
      RunInProgress(20, TRUE, PlanGroundStuck),
      RunInProgress(20, TRUE, PlanRise),
      RunInProgress(20, TRUE, PlanSink),
      RunInProgress(20, TRUE, PlanDive) }

\* normal mode: both keys held from the start; the bird hovers near mid
\* height, level with the upper wall of the first pipe (gap 349..499 px),
\* which is one frame away
PlanHover ==
    << Hold(TRUE, TRUE, 40, 349000), Hold(TRUE, TRUE, 40, 349000),
       Hold(TRUE, TRUE, 39, 349000) >>

\* normal mode: both keys held from the start; the bird hovers at mid height
\* with no pipe on the screen, two frames before the first one is spawned
PlanSpawn == << Hold(TRUE, TRUE, 40, minHeight), Hold(TRUE, TRUE, 2, minHeight) >>

NormalRuns ==
    { RunInProgress(20, FALSE, PlanFall), RunInProgress(20, FALSE, PlanHover),
      RunInProgress(20, FALSE, PlanSpawn) }

\* the start screen after the piano configuration was saved with a device
\* connected and configureTrackingForPiano() has returned
PianoStart(cfg, chords) ==
    configureTrackingForPiano([FreshWorld EXCEPT !.usePiano = TRUE], cfg, chords)

\* the start screen, with the keyboard or with the piano and tracking
\* configured, or a run in progress
Init ==
    /\ MapperInit
    /\ \/ GameInit
       \/ IsWorld(PianoStart(InitialConfig, AllChords))
       \/ \E w \in NormalRuns \cup PracticeRuns : IsWorld(w)

Next ==
    \/ StartClick
    \/ StartContinue
    \/ RestartClick
    \/ ResumeClick
    \/ PauseKey
    \/ ArrowDownEvent
    \/ ArrowUpEvent
    \/ FrameCallback
    \/ Tick

Spec == Init /\ [][Next]_vars

\* a practice run in progress
InitGate ==
    /\ MapperInit
    /\ \E w \in PracticeRuns \cup PressedRuns : IsWorld(w)

\* practice runs in progress where the game keeps executing frames while
\* the wall clock advances: every frame comes TickMs after the one before
NextGateLive ==
    \/ ArrowDownEvent
    \/ ArrowUpEvent
    \/ TimedFrame

\* TimedFrame is enabled: a callback is pending and the clock is below its
\* bound (the game of a practice run is running and not paused)
TimedFrameDue == now < MaxLiveNow /\ pending # {}

\* TimedFrame as the clock sees it.  TimedFrame is the only step of
\* NextGateLive that changes the clock, and it always does.
ClockedFrame == TimedFrameDue /\ now' = now + TickMs

\* the browser keeps running the scheduled callback: weak fairness of
\* TimedFrame, stated on its clock step
SpecGateLive == InitGate /\ [][NextGateLive]_vars /\ WF_now(ClockedFrame)

(***************************************************************************)
(* Tracked runs: the piano is enabled and the tracking reference data was  *)
(* asked for.  The run in progress is a normal run with a tracking session *)
(* open, one frame away from the first pipe.                               *)
(***************************************************************************)
\* the configuration saved in chord mode with the fields left as they were
ChordConfig == [InitialConfig EXCEPT !.mode = "Chord"]

\* the world after the start click on a start screen with tracking
\* configured, the session-start request answered, and a plan
TrackedRun(cfg, chords, plan) ==
    LET w0 == init([PianoStart(cfg, chords) EXCEPT !.gameSpeed = 20,
                                                   !.practiceMode = FALSE,
                                                   !.hidden.start = TRUE,
                                                   !.gameRunning = TRUE])
        w1 == startTrackingSession(w0)
        req == CHOOSE r \in w1.requests : r.kind = "start"
        w2 == FastForward(gameLoop(startSettled(w1, req, TRUE), minHeight), plan)
    IN  [w2 EXCEPT !.framesRun = 0]

InitTrack ==
    /\ state = [up |-> FALSE, down |-> FALSE]
    /\ activeNotes = {}
    /\ heldByLog = {}
    /\ connectedDevices = {}
    /\ isConnected = FALSE
    /\ initLog = NoInit
    /\ configLog = <<>>
    /\ \E cfg \in {InitialConfig, ChordConfig}, chords \in ChordLists :
          /\ config = cfg
          /\ \/ IsWorld(PianoStart(cfg, chords))
             \/ /\ chords = AllChords
                /\ IsWorld(TrackedRun(cfg, chords, PlanHover))

\* the browser runs a scheduled callback, within the frames of a tracked run
TrackedFrame == framesRun < MaxTrackedFrames /\ FrameCallback

NextTrack ==
    \/ StartClickAt({10}, {FALSE})
    \/ StartContinue
    \/ RestartClick
    \/ TrackedFrame
    \/ PianoAction
    \/ BatchTimeout
    \/ BatchSettled
    \/ EndSettled

SpecTrack == InitTrack /\ [][NextTrack]_vars

(***************************************************************************)
(* A tracked run in which the player keeps playing: the actions fill the   *)
(* tracker's queue up to batchSize, the batch timeout fires now and then,  *)
(* and the batch requests settle, well or not.                             *)
(***************************************************************************)
InitBatch ==
    /\ MapperInit
    /\ IsWorld(TrackedRun(InitialConfig, AllChords, PlanHover))

\* onAction is called for the up action, with the note that triggered it
QueuedAction ==
    /\ trackingState.sequence < MaxQueued
    /\ \E details \in ActionDetails :
          /\ details.present
          /\ Becomes(handlePianoAction(World, "up", details))
    /\ UNCHANGED <<startAwait, mapperVars>>

\* the batch timeout fires before the queue is full
EarlyTimeout == Len(sent) <= MaxBatches /\ BatchTimeout

NextBatch ==
    \/ QueuedAction
    \/ EarlyTimeout
    \/ BatchSettled

SpecBatch == InitBatch /\ [][NextBatch]_vars

(***************************************************************************)
(* Two tracked runs in a row: the first run, in normal mode, ended at a     *)
(* pipe, the player restarted and started again, in normal or in practice  *)
(* mode, the new session was granted, and the bird of the second run is    *)
(* one frame away from the first pipe.  With late, the first run recorded  *)
(* an action, and the batch its endSession() waits for is still in flight; *)
(* otherwise the first session's end request has been answered.            *)
(***************************************************************************)
SecondRun(late, practice) ==
    LET ran(w) == gameLoop([w EXCEPT !.pending = @ \ {CHOOSE id \in w.pending : TRUE}],
                           minHeight)
        played(w) == IF late
                     THEN handlePianoAction(w, "up", CHOOSE d \in ActionDetails : d.present)
                     ELSE w
        answered(w) == IF late THEN w
                       ELSE endSettled(w, CHOOSE r \in w.requests : r.kind = "end", TRUE)
        restarted(w) == init([w EXCEPT !.hidden.gameOver = TRUE, !.hidden.start = FALSE])
        clicked(w) == startTrackingSession(init([w EXCEPT !.practiceMode = practice,
                                                          !.hidden.start = TRUE,
                                                          !.gameRunning = TRUE]))
        granted(w) == gameLoop(startSettled(w, CHOOSE r \in w.requests : r.kind = "start",
                                            TRUE),
                               minHeight)
        first == TrackedRun(InitialConfig, AllChords, PlanHover)
    IN  [FastForward(granted(clicked(restarted(answered(ran(ran(played(first))))))),
                     PlanHover)
            EXCEPT !.framesRun = 0]

InitOverlap ==
    /\ MapperInit
    /\ \E late, practice \in BOOLEAN : IsWorld(SecondRun(late, practice))

NextOverlap ==
    \/ TrackedFrame
    \/ PianoAction
    \/ BatchTimeout
    \/ BatchSettled
    \/ EndSettled

SpecOverlap == InitOverlap /\ [][NextOverlap]_vars

(***************************************************************************)
(* Runs played with the piano: the configuration was saved with a MIDI     *)
(* device connected (usePiano = true), and the mapper's flags add to the   *)
(* arrow keys.                                                             *)
(***************************************************************************)
\* the keys of the configured up and down notes: C4 and G4
PianoKeys == {60, 67}

\* the piano sends a note-on or a note-off for one of these keys; the mapper's
\* handler runs, and nothing else does.  The handler is attached to the port
\* by updateDeviceList(), whether or not the game uses the piano.
PianoKey ==
    /\ framesRun < InputFrames
    /\ \E status \in {144, 128}, note \in PianoKeys : handleMIDI(status, note, 100)
    /\ UNCHANGED gameVars

\* down held for the first 11 frames after the start: the bird sinks in mid
\* air, two frames before its velocity meets the cap
PlanThrust == << Hold(FALSE, TRUE, 11, minHeight) >>

\* a run in progress with the piano enabled; no piano key was pressed so far
PianoRun(gs, practice, plan) ==
    [RunInProgress(gs, practice, plan) EXCEPT !.usePiano = TRUE]

PianoRuns ==
    { PianoRun(gs, practice, PlanThrust) : gs \in GameSpeeds, practice \in BOOLEAN }
    \cup { PianoRun(20, TRUE, PlanCeiling), PianoRun(20, TRUE, PlanSink),
           PianoRun(20, TRUE, PlanGround), PianoRun(20, FALSE, PlanFall) }

\* runs of a player who skipped the piano's configuration (usePiano = false)
\* and whose piano was connected afterwards: handleConnectionChange attached
\* the mapper's handler to it
KeyboardRuns ==
    { RunInProgress(gs, practice, PlanThrust) : gs \in {10, 20}, practice \in BOOLEAN }

\* a run with the piano, tracked or not, or with the piano connected but unused
InitPiano ==
    /\ MapperInit
    /\ \E w \in PianoRuns \cup {TrackedRun(InitialConfig, AllChords, PlanHover)}
                \cup KeyboardRuns :
          IsWorld(w)

\* a port is plugged in or unplugged: midiAccess.onstatechange
HotPlug ==
    /\ \E access \in MidiAccesses :
          access.granted /\ handleConnectionChange(access.inputs)
    /\ UNCHANGED gameVars

NextPiano ==
    \/ PianoKey
    \/ HotPlug
    \/ ArrowDownEvent
    \/ ArrowUpEvent
    \/ FrameCallback

SpecPiano == InitPiano /\ [][NextPiano]_vars

(***************************************************************************)
(* Properties of the bird's motion, checked under SpecPiano.               *)
(***************************************************************************)
\* C11: at the end of every frame, after updateBird and after the collision
\* step, the magnitude of the bird's vertical velocity is at most
\* maxVelocity, whatever keys of the keyboard and of the piano are held, at
\* every speed and in both modes.
C11_VelocityWithinCap ==
    Abs(bird.velocity) <= maxVelocity

\* C11 witness: a frame ran in which down was held on the piano alone and the
\* cap cut the velocity.
C11_Witness ==
    /\ frameLog.ran /\ frameLog.capped
    /\ usePiano /\ state.down /\ ~keyboardState.down /\ ~keyboardState.up
    /\ bird.velocity = MulDiv(maxVelocity, 98, 100)

(***************************************************************************)
(* Properties of the frame loop, checked under Spec.                       *)
(***************************************************************************)
\* C6 (as claimed): under every interleaving of start, pause, resume,
\* game over and frame callbacks, at most one gameLoop callback is pending.
C6_AtMostOneCallbackPending ==
    Cardinality(pending) <= 1

\* the step is a frame that got past gameLoop's guard
FrameStep == framesRun' = framesRun + 1 /\ frameLog'.ran

\* the bird's circle reaches below the ground line, or above the ceiling
OverlapsBounds ==
    bird.y + birdRadius > groundY \/ bird.y - birdRadius < 0

\* the distance from c to the interval lo..hi
Apart(c, lo, hi) == IF c < lo THEN lo - c ELSE IF c > hi THEN c - hi ELSE 0

\* the bird's circle and the wall of pipes[i] that spans yLo..yHi share an
\* inner point: the circle's centre is closer than its radius to the wall
OverlapsWall(i, yLo, yHi) ==
    LET dx == Apart(bird.x, pipes[i].x, pipes[i].x + pipeWidth)
        dy == Apart(bird.y, yLo, yHi)
    IN  /\ dx < birdRadius
        /\ dy < birdRadius
        /\ dx * dx + dy * dy < birdRadius * birdRadius

OverlapsPipe ==
    \E i \in DOMAIN pipes :
        \/ OverlapsWall(i, 0, pipes[i].top)
        \/ OverlapsWall(i, pipes[i].bottom, CanvasHeight)

\* a step in which the browser ran a scheduled callback of a game that is
\* not running and is not started by the step
IdleCallback ==
    /\ ~gameRunning /\ ~gameRunning'
    /\ \E id \in pending : id \notin pending'

C14_NoCallbackOnceStopped ==
    ~gameRunning => pending = {}

\* the variables of the scroll gate's contact record
GateFields == {"pipeScrollEnabled", "lastCollisionY", "collisionPipe", "collisionTime"}

\* a practice run, once started (the start screen is hidden), is running and
\* the game over screen is hidden
PracticeRunIsOn ==
    (practiceMode /\ hidden.start) => (gameRunning /\ hidden.gameOver)

\* in practice mode the run goes on: no step stops a running game, and a
\* frame calls gameOver() not once and leaves the game running
PracticeRunGoesOn ==
    /\ (practiceMode /\ gameRunning) => gameRunning'
    /\ (practiceMode' /\ FrameStep) => (gameRunning' /\ frameLog'.gameOvers = 0)

\* C13 (as claimed): in practice mode no step reaches the terminal state
\* (gameOver is not called, gameRunning stays true), and the collision step
\* of a frame changes the bird's position and velocity and nothing else.
C13_CollisionsChangeBirdOnly ==
    /\ [] PracticeRunIsOn
    /\ [][ /\ PracticeRunGoesOn
           /\ (practiceMode' /\ FrameStep) => frameLog'.touched \subseteq {"bird"} ]_vars

\* C13 (amended): in practice mode no step reaches the terminal state
\* (gameOver is not called, gameRunning stays true), and the collision step
\* of a frame changes only the bird's position and velocity and, on the first
\* contact with a pipe, the scroll gate's contact record.
C13_PracticeNeverTerminal ==
    /\ [] PracticeRunIsOn
    /\ [][ /\ PracticeRunGoesOn
           /\ (practiceMode' /\ FrameStep)
                 => frameLog'.touched \subseteq {"bird"} \cup GateFields ]_vars

\* C13 witness: a practice frame met the ground and recorded a contact with
\* a pipe, and the game is still running.
C13_Witness ==
    /\ practiceMode /\ gameRunning /\ hidden.gameOver
    /\ frameLog.ran /\ frameLog.recorded /\ "ground" \in frameLog.hits
    /\ frameLog.touched = {"bird"} \cup GateFields

(***************************************************************************)
(* Properties of the scroll gate: C7, C8 and C9 under Spec, C10 under      *)
(* SpecGateLive.                                                           *)
(***************************************************************************)
\* the release conditions, on what the frame's checkScrollResume read and
\* the contact recorded before the frame
TimeoutElapsed == now' - collisionTime > autoResumeDelay

InsideContactGap ==
    /\ collisionPipe # NoPipe
    /\ collisionPipe.top < frameLog'.probeY
    /\ frameLog'.probeY < collisionPipe.bottom

ClearedContactPoint == Abs(frameLog'.probeY - lastCollisionY) > clearanceY

\* C7: once the gate is off, it is on again only after a frame in which
\* (a) more than autoResumeDelay ms have passed since the recorded contact
\* time, or (b) the bird's y is strictly inside the contact obstacle's gap,
\* or (c) the bird's y is more than 40 px from lastCollisionY.
C7_GateReopensOnlyOnRelease ==
    [][ (~pipeScrollEnabled /\ pipeScrollEnabled')
            => /\ FrameStep
               /\ frameLog'.gated
               /\ TimeoutElapsed \/ InsideContactGap \/ ClearedContactPoint ]_vars

\* C7 witness: a frame has opened the gate on the clearance condition alone:
\* the timeout had not passed and the bird was outside the obstacle's gap.
C7_Witness ==
    /\ pipeScrollEnabled
    /\ frameLog.gated /\ frameLog.released /\ ~frameLog.recorded
    /\ frameLog.probeElapsed <= autoResumeDelay
    /\ ~( frameLog.probePipe.top < frameLog.probeY
          /\ frameLog.probeY < frameLog.probePipe.bottom )
    /\ Abs(frameLog.probeY - lastCollisionY) > clearanceY

\* C8: while the gate is off, no step other than a frame that releases the
\* gate changes the recorded contact (collisionPipe, lastCollisionY,
\* collisionTime), whatever collisions the step resolves.
C8_ContactKeptWhileGated ==
    [][ (~pipeScrollEnabled /\ ~(FrameStep /\ frameLog'.released))
            => UNCHANGED <<collisionPipe, lastCollisionY, collisionTime>> ]_vars

\* C8 witness: a frame resolved a side collision with the gate already off
\* and released nothing; the gate is still off.
C8_Witness ==
    /\ ~pipeScrollEnabled
    /\ frameLog.ran /\ frameLog.gated /\ ~frameLog.released
    /\ frameLog.hitWhileGated
    /\ "side" \in frameLog.hits

\* C9: the gate is off iff a contact is recorded; the recorded obstacle is
\* one of the current pipes; and a frame that released the gate and recorded
\* no new contact leaves no contact recorded.
C9_GateOffIffContactRecorded ==
    /\ (pipeScrollEnabled = FALSE) <=> (collisionPipe # NoPipe)
    /\ collisionPipe # NoPipe =>
          \E i \in DOMAIN pipes :
              /\ pipes[i].id = collisionPipe.id
              /\ pipes[i].top = collisionPipe.top
              /\ pipes[i].bottom = collisionPipe.bottom
    /\ (frameLog.released /\ ~frameLog.recorded) =>
          (pipeScrollEnabled /\ collisionPipe = NoPipe)

\* C9 witness: the gate is off on a recorded contact with the first pipe,
\* after an earlier contact was released.
C9_Witness ==
    /\ ~pipeScrollEnabled
    /\ collisionPipe # NoPipe
    /\ frameLog.released /\ frameLog.recorded

\* the contact times of the runs of SpecGateLive
ContactTimes == { k * TickMs : k \in 0..(MaxLiveNow \div TickMs + 1) }

\* the frames still to come reach past the timeout of a contact recorded at t
FramesReachTimeout(t) ==
    now + ((autoResumeDelay - (now - t)) \div TickMs) * TickMs < MaxLiveNow

\* C10: a frame that finds the gate off more than autoResumeDelay ms after
\* the recorded contact time releases it (so the first such frame does);
\* and while frames keep coming as the clock advances, a gate that is off
\* on a contact recorded at t is released, whatever the bird does.
C10_TimeoutReleasesGate ==
    /\ [](frameLog.gated /\ frameLog.probeElapsed > autoResumeDelay
             => frameLog.released)
    /\ \A t \in ContactTimes :
          (~pipeScrollEnabled /\ collisionTime = t /\ FramesReachTimeout(t))
              ~> (pipeScrollEnabled \/ collisionTime # t)

\* C10 witness: the timeout alone released the gate: the bird was outside the
\* obstacle's gap and within 40 px of the contact point.
C10_Witness ==
    /\ pipeScrollEnabled
    /\ frameLog.gated /\ frameLog.released /\ ~frameLog.recorded
    /\ frameLog.probeElapsed > autoResumeDelay
    /\ ~( frameLog.probePipe.top < frameLog.probeY
          /\ frameLog.probeY < frameLog.probePipe.bottom )
    /\ Abs(frameLog.probeY - lastCollisionY) <= clearanceY

(***************************************************************************)
(* Properties of the tracking bridge, checked under SpecTrack.             *)
(***************************************************************************)
\* the request settles in this step
Settles(req) == req \in requests /\ req \notin requests'

\* C15 (as claimed): when the session-end request of an earlier session
\* settles while a later session is open in the tracker, the tracker's
\* session id stays what it is.
C15_StaleEndKeepsSession ==
    [][ \A req \in requests :
          ( /\ req.kind = "end" /\ Settles(req)
            /\ ~Falsy(tracker.sessionId) /\ req.sessionId # tracker.sessionId )
          => tracker'.sessionId = tracker.sessionId ]_vars

\* C16 (as claimed): tracking requests never hold the frame loop back.  Once
\* the start click has hidden the start screen and set the game running, a
\* frame callback has run or is scheduled, whether or not the session-start
\* request has settled.
C16_FrameLoopNotHeldBack ==
    (hidden.start /\ gameRunning /\ ~gamePaused) => pending # {}

\* C17 (as claimed): with the piano in use and a tracking session active and
\* ready, every step in which the mapper's up or down action becomes active
\* records one action (handlePianoAction runs and tracks an event).
C17_DetectedActionIsTracked ==
    [][ ( /\ usePiano /\ sessionActive /\ trackingConfigured
          /\ \/ ~state.up /\ state'.up
             \/ ~state.down /\ state'.down )
        => trackingState'.sequence = trackingState.sequence + 1 ]_vars

Records == trackingState'.sequence = trackingState.sequence + 1

\* C19: for every recorded action exactly one of successCount and errorCount
\* grows, by exactly one; and when the tracker emits the event (it has a
\* session id), the event's isCorrect flag holds iff the expected and the
\* played id are both non-null and equal, and successCount is the counter
\* that grew iff the flag holds.
C19_OneCounterPerAction ==
    [][ Records =>
          LET successes == trackingState'.successCount - trackingState.successCount
              errors == trackingState'.errorCount - trackingState.errorCount
              queue == tracker'.eventQueue
              event == queue[Len(queue)]
          IN  /\ \/ successes = 1 /\ errors = 0
                 \/ successes = 0 /\ errors = 1
              /\ ~Falsy(tracker.sessionId) =>
                    /\ Len(queue) = Len(tracker.eventQueue) + 1
                    /\ event.positionInProgression = trackingState'.sequence
                    /\ event.isCorrect <=> /\ event.expectedChordId # Null
                                           /\ event.playedChordId # Null
                                           /\ event.expectedChordId = event.playedChordId
                    /\ event.isCorrect <=> successes = 1 ]_vars

\* C19 witness: the first action of a session was recorded with expected id
\* 42 and played id 42: the queued event is correct and successCount is 1.
C19_Witness ==
    /\ trackingState.sequence = 1
    /\ trackingState.successCount = 1 /\ trackingState.errorCount = 0
    /\ Len(tracker.eventQueue) = 1
    /\ tracker.eventQueue[1].expectedChordId = 42
    /\ tracker.eventQueue[1].playedChordId = 42
    /\ tracker.eventQueue[1].isCorrect

\* handlePianoAction(action, details), called in this state, changes
\* neither the counters nor the tracker's queue and issues no request
LeavesTrackingAlone(action, details) ==
    LET w == handlePianoAction(World, action, details)
    IN  /\ w.tracking.sequence = trackingState.sequence
        /\ w.tracking.successCount = trackingState.successCount
        /\ w.tracking.errorCount = trackingState.errorCount
        /\ w.tracker.eventQueue = tracker.eventQueue
        /\ w.requests = requests
        /\ w.sent = sent

\* C20: while tracking is not ready or no session is active, a call of
\* handlePianoAction, for either action and any details, leaves sequence,
\* successCount, errorCount and the tracker's queue as they are and sends
\* nothing; so an action is recorded, or an event queued, only in a step
\* that starts with tracking ready and a session active.
C20_NoOpWhenNotTracking ==
    /\ []( (~trackingConfigured \/ ~sessionActive) =>
             \A action \in {"up", "down"}, details \in ActionDetails :
                 LeavesTrackingAlone(action, details) )
    /\ [][ (Records \/ Len(tracker'.eventQueue) > Len(tracker.eventQueue))
           => (trackingConfigured /\ sessionActive) ]_vars

\* C20 witness: the run of a tracked session is over and the session-end
\* request is in flight: tracking is ready, the tracker still holds the
\* session id, and the session is not active.
C20_Witness ==
    /\ trackingConfigured /\ ~sessionActive /\ ~hidden.gameOver
    /\ ~Falsy(tracker.sessionId)
    /\ trackingState.sequence = 1
    /\ \E req \in requests : req.kind = "end"

\* the request req settles in this step and fails
Fails(req) ==
    Settles(req) /\ tracker'.stats.errors = tracker.stats.errors + 1

\* C21: no failure of a tracking request reaches the game.  A failed
\* session-start leaves the session inactive and the tracker without a new
\* session id, and the click handler goes on to the frame it would have run
\* anyway; a failed batch and a failed session-end leave the game's running
\* and paused flags and its physics as they are, and the code after them
\* runs: the endSession that waited for the batch issues its session-end
\* request, and the failed session-end clears the tracker's session id.
C21_FailuresStayInTracking ==
    [][ \A req \in requests :
          Fails(req) =>
            /\ req.kind = "start" =>
                  /\ ~sessionActive'
                  /\ tracker'.sessionId = tracker.sessionId
                  /\ \E topHeight \in TopsFor(World) :
                        \E w \in {gameLoop(World, topHeight)} :
                            /\ gameRunning' = w.gameRunning
                            /\ gamePaused' = w.gamePaused
                            /\ bird' = w.bird
                            /\ pipes' = w.pipes
                            /\ frameCount' = w.frameCount
                            /\ pipeScrollEnabled' = w.pipeScrollEnabled
            /\ req.kind # "start" =>
                  UNCHANGED <<gameRunning, gamePaused, bird, pipes, frameCount,
                              pipeScrollEnabled, pending>>
            /\ (req.kind = "batch" /\ req.awaited) =>
                  \E end \in requests' \ requests :
                      end.kind = "end" /\ end.args = req.args
            /\ req.kind = "end" => tracker'.sessionId = Null ]_vars

\* C21 witness: the batch an endSession waited for has failed (no batch was
\* ever sent well), and the session-end request has been issued after it.
C21_Witness ==
    /\ tracker.stats.errors = 1
    /\ tracker.stats.batchesSent = 0
    /\ \E j, k \in DOMAIN sent :
          /\ j < k
          /\ sent[j].kind = "batch" /\ sent[j].awaited /\ sent[j] \notin requests
          /\ sent[k].kind = "end"

(***************************************************************************)
(* Properties of the mapper's setup, checked under SpecSetup.              *)
(***************************************************************************)
\* the MIDIAccess of the latest init() call lists a connected input port
FoundConnectedPort ==
    /\ initLog.access.granted
    /\ \E i \in DOMAIN initLog.access.inputs : initLog.access.inputs[i] = "connected"

\* C22: init() never throws to its caller.  It resolves to false, with
\* isConnected false, when requestMIDIAccess is rejected and when the access
\* lists no connected input port; it resolves to true only when a connected
\* input port was found, and isConnected holds then.
C22_InitFailureIsAValue ==
    initLog.called =>
        /\ ~initLog.thrown
        /\ initLog.returned <=> FoundConnectedPort
        /\ isConnected <=> initLog.returned

\* C22 witness: init() was called and requestMIDIAccess was rejected.
C22_Witness ==
    initLog.called /\ ~initLog.access.granted /\ ~initLog.returned

\* the value the latest update that names field k gave it, or the value the
\* mapper was built with
LatestValue(k) ==
    LET named == { i \in DOMAIN configLog : k \in DOMAIN configLog[i] }
    IN  IF named = {} THEN InitialConfig[k]
        ELSE configLog[CHOOSE i \in named : \A j \in named : j <= i][k]

\* C23: after any sequence of updateConfig calls, getConfigDescription
\* describes the mode and the up and down targets of the merge of all the
\* updates in order: each field has the value of the latest update that
\* names it.
C23_DescriptionIsLatestConfig ==
    getConfigDescription(config) =
        IF LatestValue("mode") = "Note"
        THEN <<"Note Mode: Up=", LatestValue("upNote"),
               ", Down=", LatestValue("downNote")>>
        ELSE <<"Chord Mode: Up=", LatestValue("upChord"), " ",
               LatestValue("upChordType"),
               ", Down=", LatestValue("downChord"), " ",
               LatestValue("downChordType")>>

\* C23 witness: a chord configuration was applied, then an update of the up
\* chord's type alone; the description shows the new type with the chords of
\* the update before.
C23_Witness ==
    /\ Len(configLog) = 2
    /\ configLog[1] = [mode |-> "Chord", upChord |-> "A", upChordType |-> "Minor",
                       downChord |-> "B", downChordType |-> "Diminished"]
    /\ configLog[2] = [upChordType |-> "Sus4"]
    /\ getConfigDescription(config) =
          <<"Chord Mode: Up=", "A", " ", "Sus4", ", Down=", "B", " ", "Diminished">>

(***************************************************************************)
(* Properties of the bird's physics, checked under Spec and SpecPiano.     *)
(***************************************************************************)
\* a frame of a practice run in which the collision step finds the bird
\* below the ground line: updateBird has left bird.y + radius > groundY
GroundStep ==
    /\ practiceMode /\ FrameStep
    /\ updateBird(World).bird.y + birdRadius > groundY

\* the velocity the ground branch multiplies: bird.velocity as updateBird
\* left it
VelocityAtGround == updateBird(World).bird.velocity

\* C24 (as claimed): whenever the collision step of a practice frame finds
\* the bird below the ground line, the frame leaves bird.y at groundY - radius
\* and the velocity at -0.6 times the magnitude it had.
C24_GroundBounce ==
    [][ GroundStep =>
          /\ bird'.y = groundY - birdRadius
          /\ bird'.velocity = -Dampened(Abs(VelocityAtGround)) ]_vars

\* C24 (amended): the frame leaves bird.y at groundY - radius, and the
\* velocity at -0.6 times the magnitude it had unless the side branch of a
\* pipe ran in the same collision step, which multiplies it by 0.6 once more.
C24_GroundBounceThenSide ==
    [][ GroundStep =>
          /\ bird'.y = groundY - birdRadius
          /\ bird'.velocity =
                IF "side" \in frameLog'.hits
                THEN Dampened(-Dampened(Abs(VelocityAtGround)))
                ELSE -Dampened(Abs(VelocityAtGround)) ]_vars

\* C24 witness: a practice frame has bounced the bird off the ground with no
\* pipe in reach: it sits on the ground line and moves up.
C24_Witness ==
    /\ practiceMode /\ frameLog.ran
    /\ frameLog.hits = {"ground"}
    /\ bird.y = groundY - birdRadius
    /\ bird.velocity < 0

\* C25: the final score of every session-end request is
\* max(0, 10 * successCount - 2 * errorCount) for the counts the request
\* reports, so it is never negative; and the counts are those of the session
\* that ends: the request endTrackingSession issues, be it the session-end
\* request or the batch it waits for first, carries the counters as they
\* stand when the session ends.
C25_FinalScoreFormula ==
    /\ [](\A i \in DOMAIN sent :
            sent[i].kind = "end" =>
                LET args == sent[i].args
                    raw == 10 * args.successCount - 2 * args.errorCount
                IN  /\ args.finalScore = (IF raw > 0 THEN raw ELSE 0)
                    /\ args.finalScore >= 0)
    /\ [][ (sessionActive /\ ~sessionActive' /\ Len(sent') = Len(sent) + 1) =>
              LET args == sent'[Len(sent')].args
              IN  /\ args.successCount = trackingState.successCount
                  /\ args.errorCount = trackingState.errorCount
                  /\ args.finalScore =
                        (IF 10 * args.successCount > 2 * args.errorCount
                         THEN 10 * args.successCount - 2 * args.errorCount
                         ELSE 0) ]_vars

\* C25 witness: a session with no success and one error has ended, and its
\* session-end request reports the score 0.
C25_Witness ==
    \E i \in DOMAIN sent :
        /\ sent[i].kind = "end"
        /\ sent[i].args.successCount = 0
        /\ sent[i].args.errorCount > 0
        /\ sent[i].args.finalScore = 0


(***************************************************************************)
(* Properties of updateBird, checked under SpecPiano.                      *)
(***************************************************************************)
\* C26: in every frame, upThrust is added to the velocity iff the up action
\* is active, downThrust iff the down action is active (both when both
\* are), and gravity * gameSpeed iff neither is, where an action is active
\* when its keyboard flag is set or the piano is enabled and the mapper's
\* flag is set.  (Stated on the frames without a collision, whose velocity
\* at the end is the cap and the drag of that sum.)
C26_ThrustSelection ==
    [][ (FrameStep /\ frameLog'.hits = {}) =>
          LET upActive == keyboardState.up \/ (usePiano /\ state.up)
              downActive == keyboardState.down \/ (usePiano /\ state.down)
              added == (IF upActive THEN upThrust ELSE 0)
                       + (IF downActive THEN downThrust ELSE 0)
                       + (IF upActive \/ downActive THEN 0
                          ELSE (gravity * gameSpeed) \div 10)
              sum == bird.velocity + added
              capped == IF sum > maxVelocity THEN maxVelocity
                        ELSE IF sum < -maxVelocity THEN -maxVelocity ELSE sum
          IN  bird'.velocity = MulDiv(capped, 98, 100) ]_vars

\* C26 witness: a frame without a collision ran with up held on the piano
\* alone and down held on the keyboard alone.
C26_Witness ==
    /\ frameLog.ran /\ frameLog.hits = {}
    /\ usePiano /\ state.up /\ ~state.down
    /\ keyboardState.down /\ ~keyboardState.up

\* a frame without a collision ran with the piano unused and up held on it
C26_UnusedPianoFrame ==
    /\ frameLog.ran /\ frameLog.hits = {}
    /\ ~usePiano /\ state.up /\ ~keyboardState.up /\ ~keyboardState.down


\* the velocity of a frame after thrust or gravity and after the cap, before
\* the drag
CappedVelocity ==
    LET upActive == keyboardState.up \/ (usePiano /\ state.up)
        downActive == keyboardState.down \/ (usePiano /\ state.down)
        sum == bird.velocity
               + (IF upActive THEN upThrust ELSE 0)
               + (IF downActive THEN downThrust ELSE 0)
               + (IF upActive \/ downActive THEN 0 ELSE (gravity * gameSpeed) \div 10)
    IN  IF sum > maxVelocity THEN maxVelocity
        ELSE IF sum < -maxVelocity THEN -maxVelocity ELSE sum

\* C27 (as claimed): within one frame the velocity is capped, then multiplied
\* by the drag factor 0.98, and the position is then advanced by that capped
\* and dragged velocity times gameSpeed.
C27_PositionAdvancesByDraggedVelocity ==
    [][ (FrameStep /\ frameLog'.hits = {}) =>
          /\ bird'.velocity = MulDiv(CappedVelocity, 98, 100)
          /\ bird'.y = bird.y + MulDiv(MulDiv(CappedVelocity, 98, 100), gameSpeed, 10) ]_vars

\* C27 (amended): within one frame the velocity is capped, the position is
\* advanced by the capped velocity times gameSpeed, and the velocity is then
\* multiplied by the drag factor 0.98: the drag of a frame acts on the
\* position from the next frame on.
C27_PositionAdvancesByCappedVelocity ==
    [][ (FrameStep /\ frameLog'.hits = {}) =>
          /\ bird'.velocity = MulDiv(CappedVelocity, 98, 100)
          /\ bird'.y = bird.y + MulDiv(CappedVelocity, gameSpeed, 10) ]_vars

\* C27 witness: a frame without a collision ran at speed 2.0 with a velocity
\* whose drag changes the distance covered (the bird moved by more than its
\* velocity after the drag accounts for).
C27_Witness ==
    /\ frameLog.ran /\ frameLog.hits = {}
    /\ gameSpeed = 20
    /\ bird.velocity = MulDiv(maxVelocity, 98, 100)
    /\ frameLog.capped


(***************************************************************************)
(* Properties of the pipes, checked under Spec.                            *)
(***************************************************************************)
\* C28: a frame of practice mode that reaches updatePipes with the scroll
\* gate off (the gate was off when the frame began and checkScrollResume did
\* not reopen it) leaves the frame counter and the pipes as they are: no
\* pipe is spawned, moved or removed; and every executed frame of normal
\* mode advances the frame counter by exactly one.
C28_GatedPipesStandStill ==
    [][ FrameStep =>
          /\ (practiceMode /\ ~pipeScrollEnabled /\ ~frameLog'.released) =>
                (frameCount' = frameCount /\ pipes' = pipes)
          /\ ~practiceMode => frameCount' = frameCount + 1 ]_vars

\* C28 witness: a practice frame ran with the gate off throughout, with a
\* pipe on the screen that an open gate would have moved.
C28_Witness ==
    /\ frameLog.ran /\ practiceMode
    /\ frameLog.gated /\ ~frameLog.released /\ ~pipeScrollEnabled
    /\ pipes # <<>>
    /\ frameCount > 0


(***************************************************************************)
(* Properties of the idle callback, checked under Spec.                    *)
(***************************************************************************)
\* the step is the run of a pending callback: it takes a handle out of the
\* pending ones and it is not a click or a key, which all show or hide a
\* screen (a resume or a restart can take a handle out as well, when the frame
\* it runs ends the game and cancels animationId)
CallbackStep ==
    /\ \E id \in pending : id \notin pending'
    /\ hidden' = hidden

\* C29: a frame callback invoked while the game is paused or not running
\* returns without effect: the bird, the pipes, the frame counter and the
\* state of the scroll gate are as before, and the callback schedules no
\* further frame (the pending callbacks are those of before less the one
\* that ran, and animationId is unchanged).
C29_IdleCallbackHasNoEffect ==
    [][ ((~gameRunning \/ gamePaused) /\ CallbackStep) =>
          /\ bird' = bird
          /\ pipes' = pipes
          /\ frameCount' = frameCount
          /\ pipeScrollEnabled' = pipeScrollEnabled
          /\ lastCollisionY' = lastCollisionY
          /\ collisionPipe' = collisionPipe
          /\ collisionTime' = collisionTime
          /\ gameRunning' = gameRunning /\ gamePaused' = gamePaused
          /\ pending' \subseteq pending
          /\ Cardinality(pending') = Cardinality(pending) - 1
          /\ animationId' = animationId
          /\ framesRun' = framesRun /\ ~frameLog'.ran ]_vars

\* C29 witness: the game is paused with pipes on the screen and no callback
\* is pending: the one that was pending at the pause has run and returned.
C29_Witness ==
    /\ gameRunning /\ gamePaused
    /\ ~frameLog.ran /\ framesRun > 0
    /\ pending = {}
    /\ pipes # <<>>


\* C30: every pipe ever present has a gap that fits on the screen: top >= 50,
\* bottom = top + pipeGap and bottom <= canvas.height - 100, which is above
\* the ground line; and a pipe keeps its top and bottom from its spawn on:
\* a step changes of a pipe that stays only its x.
C30_GapFitsOnScreen ==
    /\ [](\A i \in DOMAIN pipes :
            /\ pipes[i].top >= minHeight
            /\ pipes[i].bottom = pipes[i].top + pipeGap
            /\ pipes[i].bottom <= CanvasHeight - maxHeightMargin
            /\ pipes[i].bottom < groundY)
    /\ [][ \A i \in DOMAIN pipes, j \in DOMAIN pipes' :
              pipes'[j].id = pipes[i].id =>
                 /\ pipes'[j].top = pipes[i].top
                 /\ pipes'[j].bottom = pipes[i].bottom
                 /\ pipes'[j].x <= pipes[i].x ]_vars

\* C30 witness: a pipe with the lowest gap there is was spawned in one of the
\* frames executed since the run was joined, and has scrolled since.
C30_Witness ==
    \E i \in DOMAIN pipes :
        /\ pipes[i].top = CanvasHeight - pipeGap - maxHeightMargin - 1000
        /\ pipes[i].id > frameCount - framesRun
        /\ pipes[i].id < frameCount

(***************************************************************************)
(* Properties of the horizontal bounce, checked under Spec.                *)
(***************************************************************************)
\* C31: in every state bird.velocityX <= 0, and bird.velocityX = 0 implies
\* bird.x = 80; in normal mode bird.x is 80; and a practice frame that
\* begins with a nonzero horizontal velocity and has no side collision
\* multiplies it by 0.95 after moving the bird by it, and once its magnitude
\* is below 0.1 sets it to 0 and returns the bird to x = 80.
C31_HorizontalRest ==
    /\ [](/\ bird.velocityX <= 0
          /\ bird.velocityX = 0 => bird.x = birdRestX
          /\ ~practiceMode => bird.x = birdRestX)
    /\ [][ (FrameStep /\ practiceMode /\ bird.velocityX # 0
                /\ "side" \notin frameLog'.hits) =>
              LET decayed == MulDiv(bird.velocityX, 95, 100)
              IN  IF Abs(decayed) < restEpsilon
                  THEN bird'.velocityX = 0 /\ bird'.x = birdRestX
                  ELSE /\ bird'.velocityX = decayed
                       /\ bird'.x = bird.x - ((-bird.velocityX) * gameSpeed) \div 10
                       /\ bird'.x < bird.x ]_vars

\* C31 witness: the frame after a side collision ran: the bounce has decayed
\* below 0.1 and the bird is back at x = 80, next to the pipe it hit.
C31_Witness ==
    /\ practiceMode /\ frameLog.ran /\ "side" \notin frameLog.hits
    /\ bird.velocityX = 0 /\ bird.x = birdRestX
    /\ collisionPipe # NoPipe
    /\ \E i \in DOMAIN pipes :
          pipes[i].id = collisionPipe.id /\ pipes[i].x < birdRestX + birdRadius + sideImpulse

(***************************************************************************)
(* Properties of the tracking bridge, checked under SpecTrack.             *)
(***************************************************************************)
RECURSIVE EventsOf(_)
\* the events of a sequence of requests, in the order they were handed over
EventsOf(reqs) ==
    IF reqs = <<>> THEN <<>> ELSE Head(reqs).events \o EventsOf(Tail(reqs))

\* the events emitted so far, in emission order: those of the batches sent,
\* then those still in the queue
EmittedEvents == EventsOf(sent) \o tracker.eventQueue

\* C32: within one tracking session the sequence positions of the emitted
\* events are 1, 2, 3, ... in emission order, without gap or repeat (the
\* position of an event is one more than the number of events of its session
\* emitted before it); and the step that starts a new session resets the
\* sequence counter and both counters to 0.
C32_PositionsCountUpFromOne ==
    /\ [](\A i \in DOMAIN EmittedEvents :
            EmittedEvents[i].positionInProgression =
                1 + Cardinality({ j \in 1..(i - 1) :
                        EmittedEvents[j].sessionId = EmittedEvents[i].sessionId }))
    /\ [][ (Len(sent') = Len(sent) + 1 /\ sent'[Len(sent')].kind = "start") =>
              /\ trackingState'.sequence = 0
              /\ trackingState'.successCount = 0
              /\ trackingState'.errorCount = 0 ]_vars

\* C32 witness: two sessions have each emitted an event, the second one after
\* the first, both at position 1.
C32_Witness ==
    \E i, j \in DOMAIN EmittedEvents :
        /\ i < j
        /\ EmittedEvents[i].sessionId # EmittedEvents[j].sessionId
        /\ EmittedEvents[i].positionInProgression = 1
        /\ EmittedEvents[j].positionInProgression = 1

(***************************************************************************)
(* Properties of the tracker's queue, checked under SpecBatch.             *)
(***************************************************************************)
\* the step records an action while the tracker has a session: an event is
\* handed to queueEvent
EventQueued ==
    /\ trackingState'.sequence = trackingState.sequence + 1
    /\ tracker.sessionId # Null

\* C33: after every call of queueEvent the queue holds fewer than batchSize
\* events; every batch request carries between 1 and batchSize events; the
\* event that brings the queue to batchSize is sent at once, in a batch of
\* the batchSize events queued; and an event is queued (or sent with its
\* batch) whether or not a batch request has failed before.
C33_BatchBound ==
    /\ [](/\ Len(tracker.eventQueue) < batchSize
          /\ \A i \in DOMAIN sent :
                sent[i].kind = "batch" =>
                    Len(sent[i].events) >= 1 /\ Len(sent[i].events) <= batchSize)
    /\ [][ EventQueued =>
              /\ Len(EmittedEvents') = Len(EmittedEvents) + 1
              /\ IF Len(tracker.eventQueue) + 1 = batchSize
                 THEN /\ tracker'.eventQueue = <<>>
                      /\ Len(sent') = Len(sent) + 1
                      /\ sent'[Len(sent')].kind = "batch"
                      /\ Len(sent'[Len(sent')].events) = batchSize
                      /\ SubSeq(sent'[Len(sent')].events, 1, batchSize - 1)
                            = tracker.eventQueue
                 ELSE /\ sent' = sent
                      /\ Len(tracker'.eventQueue) = Len(tracker.eventQueue) + 1 ]_vars

\* C33 witness: a batch request has failed, a full batch was sent and
\* answered, and an event is waiting in the queue again.
C33_Witness ==
    /\ tracker.stats.errors > 0
    /\ tracker.stats.eventsSent >= batchSize
    /\ \E i \in DOMAIN sent :
          sent[i].kind = "batch" /\ Len(sent[i].events) = batchSize
    /\ tracker.eventQueue # <<>>

(***************************************************************************)
(* Properties of the piano's connection, checked under SpecPiano.          *)
(***************************************************************************)
\* C34: a change of the connected devices leaves the held notes and the
\* action flags as they are, and with them what isUpPressed and
\* isDownPressed answer; a held note leaves the set only in a step in which
\* its note-off arrives, whatever happened to its device.
C34_HotPlugKeepsNotes ==
    /\ [][ (connectedDevices' # connectedDevices \/ isConnected' # isConnected) =>
              /\ activeNotes' = activeNotes
              /\ state' = state
              /\ usePiano' = usePiano
              /\ keyboardState' = keyboardState ]_vars
    /\ [][ \A n \in activeNotes :
              n \notin activeNotes' => (n \in heldByLog /\ n \notin heldByLog') ]_vars

\* C34 witness: the devices have changed (the first port is disconnected, the
\* second connected), the piano's up key is held and a frame has run with
\* the up action active.
C34_Witness ==
    /\ usePiano /\ isConnected /\ connectedDevices = {2}
    /\ activeNotes = {60} /\ state.up /\ ~keyboardState.up
    /\ frameLog.ran /\ framesRun > 0

(***************************************************************************)
(* Properties of the practice playfield, checked under Spec.               *)
(***************************************************************************)
\* C35: in practice mode the bird is vertically inside the playfield at the
\* end of every frame, after the collision step: radius <= bird.y <=
\* groundY - radius, with groundY = canvas.height - 50.
C35_PracticeBirdInsidePlayfield ==
    practiceMode =>
        /\ bird.y >= birdRadius
        /\ bird.y <= (CanvasHeight - groundMargin) - birdRadius

\* C35 witness: a practice frame has run in which the bird, with up held,
\* went through the ceiling and was put back at y = radius.
C35_Witness ==
    /\ practiceMode /\ frameLog.ran /\ framesRun > 0
    /\ "ceiling" \in frameLog.hits
    /\ keyboardState.up
    /\ bird.y = birdRadius

(***************************************************************************)
(* Properties of the bridge's counters, checked under SpecTrack.           *)
(***************************************************************************)
\* C36: in every state successCount + errorCount = sequence; a step that
\* changes any of the three either records one action (sequence grows by one
\* and exactly one of successCount and errorCount grows by one, the other
\* staying) or starts a session (all three become 0).
C36_CountersAddUp ==
    /\ [](trackingState.successCount + trackingState.errorCount
              = trackingState.sequence)
    /\ [][ (\/ trackingState'.sequence # trackingState.sequence
            \/ trackingState'.successCount # trackingState.successCount
            \/ trackingState'.errorCount # trackingState.errorCount) =>
              \/ /\ trackingState'.sequence = trackingState.sequence + 1
                 /\ \/ /\ trackingState'.successCount = trackingState.successCount + 1
                       /\ trackingState'.errorCount = trackingState.errorCount
                    \/ /\ trackingState'.successCount = trackingState.successCount
                       /\ trackingState'.errorCount = trackingState.errorCount + 1
                 /\ Len(sent') = Len(sent) \/ sent'[Len(sent')].kind = "batch"
              \/ /\ trackingState'.sequence = 0
                 /\ trackingState'.successCount = 0
                 /\ trackingState'.errorCount = 0
                 /\ Len(sent') = Len(sent) + 1
                 /\ sent'[Len(sent')].kind = "start" ]_vars

\* C36 witness: a session has recorded one success and one error, after an
\* earlier session was started and reset.
C36_Witness ==
    /\ trackingState.sequence = 2
    /\ trackingState.successCount = 1
    /\ trackingState.errorCount = 1
    /\ \E i, j \in DOMAIN sent :
          i < j /\ sent[i].kind = "start" /\ sent[j].kind = "start"

LatestSession ==
    CHOOSE n \in DOMAIN sent :
        /\ sent[n].kind = "start"
        /\ \A m \in DOMAIN sent : sent[m].kind = "start" => m <= n

C39_ReleaseFrameScrolls ==
    /\ [][ (FrameStep /\ frameLog'.released) =>
              /\ frameCount' = frameCount + 1
              /\ \A i \in DOMAIN pipes :
                    \/ pipes[i].x - (pipeSpeed * gameSpeed) \div 10 + pipeWidth <= 0
                    \/ \E j \in DOMAIN pipes' :
                          /\ pipes'[j].id = pipes[i].id
                          /\ pipes'[j].x = pipes[i].x - (pipeSpeed * gameSpeed) \div 10 ]_vars
    /\ \A t \in ContactTimes :
          (~pipeScrollEnabled /\ now = t /\ FramesReachTimeout(collisionTime))
              ~> (now > t /\ frameLog.released)

\* C39 witness: the gate was released in a frame, the pipes scrolled, and
\* the collision step of the same frame found the bird in contact and set
\* the gate again.
C39_Witness ==
    /\ practiceMode /\ frameLog.ran /\ framesRun > 0
    /\ frameLog.released /\ frameLog.recorded
    /\ ~pipeScrollEnabled
    /\ pipes # <<>>

====
